---------------------------- MODULE Spec2Model ----------------------------
(***************************************************************************)
(* A model of app.py of anacondy/3-GAL: the announcements table and its    *)
(* FTS index (init_db), save_announcement, the PDF enrichment pool         *)
(* (analyze_pdf_async), scrape_and_sync, and the /api/analyze, /api/data   *)
(* and /api/search handlers.                                               *)
(*                                                                         *)
(* Text values are sequences of one-character strings; SQL NULL / Python   *)
(* None is the one-element sequence NULL, which no text equals.            *)
(***************************************************************************)
EXTENDS Integers, Sequences, FiniteSets, TLC

(***************************************************************************)
(* Bounds of the model.                                                    *)
(***************************************************************************)
\* handler invocations (save_announcement, scrape_and_sync, analyze_pdf) a
\* behaviour makes after start-up
MaxCalls == 2
\* request threads of the Flask server (app.run(..., threaded=True))
NumThreads == 2
\* tasks a behaviour submits to the executor
MaxTasks == 2

(***************************************************************************)
(* Values.                                                                 *)
(***************************************************************************)
NULL == <<"NULL">>

\* Python truthiness of an Optional[str]: None and '' are falsy
Truthy(v) == v # NULL /\ v # <<>>

(***************************************************************************)
(* Text: characters, case, substrings, splitting and joining.              *)
(***************************************************************************)
LowerLetters == <<"a","b","c","d","e","f","g","h","i","j","k","l","m","n","o","p","q","r","s","t","u","v","w","x","y","z">>
UpperLetters == <<"A","B","C","D","E","F","G","H","I","J","K","L","M","N","O","P","Q","R","S","T","U","V","W","X","Y","Z">>

Range(f) == { f[i] : i \in DOMAIN f }

Lowers == Range(LowerLetters)
Uppers == Range(UpperLetters)
Digits == {"0","1","2","3","4","5","6","7","8","9"}
Letters == Lowers \cup Uppers
\* \w of Python's re on the characters of the model
WordChars == Letters \cup Digits \cup {"_"}
\* \s, and what str.split() splits on
Whitespace == {" ", "\n", "\t"}

\* str.lower() on one character
ToLower(c) ==
    IF c \in Uppers THEN LowerLetters[CHOOSE i \in 1..26 : UpperLetters[i] = c] ELSE c

\* str.lower()
Lower(s) == [i \in 1..Len(s) |-> ToLower(s[i])]

\* whether needle occurs in hay at offset i (0-based)
OccursAt(hay, needle, i) ==
    /\ i + Len(needle) <= Len(hay)
    /\ \A j \in 1..Len(needle) : hay[i + j] = needle[j]

\* Python's `needle in hay`
Contains(hay, needle) == \E i \in 0..Len(hay) : OccursAt(hay, needle, i)

Min(S) == CHOOSE x \in S : \A y \in S : x <= y

RECURSIVE Concat(_)
\* ''.join(parts)
Concat(parts) == IF parts = <<>> THEN <<>> ELSE Head(parts) \o Concat(Tail(parts))

RECURSIVE Join(_, _)
\* sep.join(parts): the first half of the parts, sep, the second half
Join(parts, sep) ==
    IF parts = <<>> THEN <<>>
    ELSE IF Len(parts) = 1 THEN parts[1]
    ELSE LET h == Len(parts) \div 2 IN
         Join(SubSeq(parts, 1, h), sep) \o sep \o Join(SubSeq(parts, h + 1, Len(parts)), sep)

\* a slice that cuts nothing off
Take_all(xs, n) == xs

\* xs[:n]
Take(xs, n) == SubSeq(xs, 1, IF Len(xs) < n THEN Len(xs) ELSE n)

\* the positions of s where a maximal run of non-whitespace starts
WordStarts(s) ==
    { i \in 1..Len(s) : s[i] \notin Whitespace /\ (i = 1 \/ s[i - 1] \in Whitespace) }

\* the position where the run of non-whitespace that holds position i ends
WordEnd(s, i) ==
    Min({ j \in i..Len(s) : j = Len(s) \/ s[j + 1] \in Whitespace })

\* str.split(): the maximal runs of non-whitespace, left to right
Split(s) ==
    LET starts == WordStarts(s)
        nth(k) == CHOOSE i \in starts : Cardinality({ j \in starts : j <= i }) = k
    IN [k \in 1..Cardinality(starts) |-> SubSeq(s, nth(k), WordEnd(s, nth(k)))]

RECURSIVE StripLeft(_)
StripLeft(s) == IF s # <<>> /\ Head(s) \in Whitespace THEN StripLeft(Tail(s)) ELSE s

RECURSIVE StripRight(_)
StripRight(s) ==
    IF s # <<>> /\ s[Len(s)] \in Whitespace THEN StripRight(SubSeq(s, 1, Len(s) - 1)) ELSE s

\* str.strip()
Strip(s) == StripRight(StripLeft(s))

\* the sequences that list a finite set once each (the orders list(set(...)) may give)
RECURSIVE Orderings(_)
Orderings(S) ==
    IF S = {} THEN { <<>> }
    ELSE UNION { { <<x>> \o o : o \in Orderings(S \ {x}) } : x \in S }

(***************************************************************************)
(* Regular expressions as re matches them: a pattern is a sequence of      *)
(* items, matched left to right with backtracking, greedy first.           *)
(***************************************************************************)
\* \b
WordBoundary == [k |-> "b"]
\* between min and max characters of a class (max = -1: no upper limit), greedy
Cls(chars, min, max) == [k |-> "cls", chars |-> chars, min |-> min, max |-> max]
\* the first alternative (each a pattern) that lets the rest match
Alt(alts) == [k |-> "alt", alts |-> alts]
Lit(s) == [k |-> "lit", s |-> s]

IsWordAt(s, i) == i >= 1 /\ i <= Len(s) /\ s[i] \in WordChars

\* \b before position pos
AtBoundary(s, pos) == IsWordAt(s, pos - 1) # IsWordAt(s, pos)

\* whether character c is in the class, ignoring case under re.I
InClass(c, chars, ci) == c \in chars \/ (ci /\ (ToLower(c) \in chars))

RECURSIVE RunLength(_, _, _, _, _)
\* how many characters of the class follow from pos, at most max
RunLength(s, pos, chars, ci, max) ==
    IF max = 0 \/ pos > Len(s) \/ ~InClass(s[pos], chars, ci) THEN 0
    ELSE 1 + RunLength(s, pos + 1, chars, ci, IF max = -1 THEN -1 ELSE max - 1)

LitAt(s, pos, lit, ci) ==
    /\ pos + Len(lit) - 1 <= Len(s)
    /\ \A j \in 1..Len(lit) :
          \/ s[pos + j - 1] = lit[j]
          \/ (ci /\ ToLower(s[pos + j - 1]) = ToLower(lit[j]))

RECURSIVE Match(_, _, _, _)
RECURSIVE MatchCount(_, _, _, _, _, _)
RECURSIVE MatchAlts(_, _, _, _, _, _)

\* the position after the first match of pattern p at pos, or -1
Match(p, s, pos, ci) ==
    IF p = <<>> THEN pos
    ELSE LET it == Head(p) IN
         CASE it.k = "b" -> IF AtBoundary(s, pos) THEN Match(Tail(p), s, pos, ci) ELSE -1
           [] it.k = "lit" -> IF LitAt(s, pos, it.s, ci)
                              THEN Match(Tail(p), s, pos + Len(it.s), ci) ELSE -1
           [] it.k = "cls" -> MatchCount(Tail(p), s, pos, ci,
                                         RunLength(s, pos, it.chars, ci, it.max), it.min)
           [] it.k = "alt" -> MatchAlts(it.alts, Tail(p), s, pos, ci, 1)

\* a class took n characters: try the rest, giving characters back down to min
MatchCount(rest, s, pos, ci, n, min) ==
    IF n < min THEN -1
    ELSE LET r == Match(rest, s, pos + n, ci) IN
         IF r # -1 THEN r ELSE MatchCount(rest, s, pos, ci, n - 1, min)

MatchAlts(alts, rest, s, pos, ci, i) ==
    IF i > Len(alts) THEN -1
    ELSE LET r == Match(alts[i] \o rest, s, pos, ci) IN
         IF r # -1 THEN r ELSE MatchAlts(alts, rest, s, pos, ci, i + 1)

RECURSIVE SpansFrom(_, _)
\* the non-overlapping matches from pos on, ends[i] being the position after the
\* match that starts at i, or -1
SpansFrom(ends, pos) ==
    LET starts == { i \in pos..Len(ends) : ends[i] # -1 /\ ends[i] # i } IN
    IF starts = {} THEN <<>>
    ELSE << <<Min(starts), ends[Min(starts)]>> >> \o SpansFrom(ends, ends[Min(starts)])

\* re.finditer: the non-overlapping matches <<start, end>> (end exclusive), left to right
FindSpans(p, s, pos, ci) == SpansFrom([i \in 1..Len(s) |-> Match(p, s, i, ci)], pos)

\* re.findall for a pattern whose one group is the whole match
FindAll(p, s, ci) ==
    LET spans == FindSpans(p, s, 1, ci)
    IN [i \in 1..Len(spans) |-> SubSeq(s, spans[i][1], spans[i][2] - 1)]

\* (?:x)?: x if the rest then matches, else nothing
Optional(alts) == Alt(alts \o << <<>> >>)

(***************************************************************************)
(* The analysis pipeline: categorize_document, extract_key_info and        *)
(* generate_pdf_summary.                                                   *)
(***************************************************************************)
GENERAL_NOTICE == <<"G","e","n","e","r","a","l"," ","N","o","t","i","c","e">>
UNABLE_TO_EXTRACT == <<"U","n","a","b","l","e"," ","t","o"," ","e","x","t","r","a","c","t"," ","c","o","n","t","e","n","t"," ","f","r","o","m"," ","P","D","F",".">>
TYPE_LABEL == <<"T","y","p","e",":"," ">>
PAPER_CODES_LABEL == <<"P","a","p","e","r"," ","C","o","d","e","s",":"," ">>
DATES_LABEL == <<"D","a","t","e","s",":"," ">>
TIMES_LABEL == <<"T","i","m","e","s",":"," ">>
SUBJECTS_LABEL == <<"S","u","b","j","e","c","t","s",":"," ">>
CONTENT_LABEL == <<"C","o","n","t","e","n","t",":"," ">>
BAR_SEP == <<" ","|"," ">>
COMMA_SEP == <<","," ">>
ELLIPSIS == <<".",".",".">>

\* the ordered taxonomy of categorize_document
categories ==
    <<
      [category |-> <<"E","x","a","m","i","n","a","t","i","o","n">>,
       keywords |-> <<
          <<"e","x","a","m">>,
          <<"e","x","a","m","i","n","a","t","i","o","n">>,
          <<"p","a","p","e","r"," ","c","o","d","e">>,
          <<"p","a","p","e","r","-","c","o","d","e">>,
          <<"a","n","s","w","e","r"," ","s","h","e","e","t">>,
          <<"q","u","e","s","t","i","o","n"," ","p","a","p","e","r">>,
          <<"t","i","m","e"," ","t","a","b","l","e">>,
          <<"t","i","m","e","t","a","b","l","e">>,
          <<"d","a","t","e"," ","s","h","e","e","t">>,
          <<"d","a","t","e","s","h","e","e","t">>,
          <<"h","a","l","l"," ","t","i","c","k","e","t">>,
          <<"a","d","m","i","t"," ","c","a","r","d">>,
          <<"s","e","m","e","s","t","e","r">>,
          <<"i","n","t","e","r","n","a","l">>,
          <<"e","x","t","e","r","n","a","l">>,
          <<"m","i","d","-","t","e","r","m">>,
          <<"e","n","d","-","t","e","r","m">>,
          <<"p","r","a","c","t","i","c","a","l">>,
          <<"v","i","v","a">> >>],
      [category |-> <<"A","c","a","d","e","m","i","c"," ","C","a","l","e","n","d","a","r">>,
       keywords |-> <<
          <<"a","c","a","d","e","m","i","c"," ","c","a","l","e","n","d","a","r">>,
          <<"h","o","l","i","d","a","y">>,
          <<"v","a","c","a","t","i","o","n">>,
          <<"s","e","s","s","i","o","n">>,
          <<"s","e","m","e","s","t","e","r"," ","s","t","a","r","t">>,
          <<"s","e","m","e","s","t","e","r"," ","e","n","d">>,
          <<"r","e","g","i","s","t","r","a","t","i","o","n">>,
          <<"e","n","r","o","l","l","m","e","n","t">> >>],
      [category |-> <<"R","e","s","u","l","t">>,
       keywords |-> <<
          <<"r","e","s","u","l","t">>,
          <<"m","a","r","k","s">>,
          <<"g","r","a","d","e">>,
          <<"c","g","p","a">>,
          <<"s","g","p","a">>,
          <<"t","r","a","n","s","c","r","i","p","t">>,
          <<"m","a","r","k","s","h","e","e","t">> >>],
      [category |-> <<"F","e","e"," ","N","o","t","i","c","e">>,
       keywords |-> <<
          <<"f","e","e">>,
          <<"p","a","y","m","e","n","t">>,
          <<"d","u","e","s">>,
          <<"s","c","h","o","l","a","r","s","h","i","p">>,
          <<"f","i","n","a","n","c","i","a","l">>,
          <<"r","e","f","u","n","d">> >>],
      [category |-> <<"A","d","m","i","s","s","i","o","n">>,
       keywords |-> <<
          <<"a","d","m","i","s","s","i","o","n">>,
          <<"i","n","t","a","k","e">>,
          <<"e","n","r","o","l","l","m","e","n","t">>,
          <<"c","o","u","n","s","e","l","i","n","g">>,
          <<"m","e","r","i","t"," ","l","i","s","t">> >>],
      [category |-> <<"U","n","i","f","o","r","m","/","D","r","e","s","s"," ","C","o","d","e">>,
       keywords |-> <<
          <<"u","n","i","f","o","r","m">>,
          <<"d","r","e","s","s"," ","c","o","d","e">>,
          <<"d","r","e","s","s","-","c","o","d","e">>,
          <<"a","t","t","i","r","e">>,
          <<"i","d"," ","c","a","r","d">> >>],
      [category |-> <<"E","v","e","n","t">>,
       keywords |-> <<
          <<"e","v","e","n","t">>,
          <<"f","e","s","t","i","v","a","l">>,
          <<"f","u","n","c","t","i","o","n">>,
          <<"c","e","l","e","b","r","a","t","i","o","n">>,
          <<"c","u","l","t","u","r","a","l">>,
          <<"s","p","o","r","t","s">> >>],
      [category |-> <<"A","s","s","i","g","n","m","e","n","t","/","P","r","o","j","e","c","t">>,
       keywords |-> <<
          <<"a","s","s","i","g","n","m","e","n","t">>,
          <<"p","r","o","j","e","c","t">>,
          <<"s","u","b","m","i","s","s","i","o","n">>,
          <<"d","e","a","d","l","i","n","e">>,
          <<"t","h","e","s","i","s">>,
          <<"d","i","s","s","e","r","t","a","t","i","o","n">> >>],
      [category |-> <<"I","n","t","e","r","n","s","h","i","p","/","P","l","a","c","e","m","e","n","t">>,
       keywords |-> <<
          <<"i","n","t","e","r","n","s","h","i","p">>,
          <<"p","l","a","c","e","m","e","n","t">>,
          <<"j","o","b">>,
          <<"r","e","c","r","u","i","t","m","e","n","t">>,
          <<"c","a","m","p","u","s"," ","d","r","i","v","e">>,
          <<"i","n","t","e","r","v","i","e","w">> >>],
      [category |-> <<"I","m","p","o","r","t","a","n","t"," ","D","a","t","e","s">>,
       keywords |-> <<
          <<"i","m","p","o","r","t","a","n","t"," ","d","a","t","e">>,
          <<"l","a","s","t"," ","d","a","t","e">>,
          <<"d","e","a","d","l","i","n","e">>,
          <<"s","c","h","e","d","u","l","e">>,
          <<"t","i","m","i","n","g">> >>]
    >>

\* the taxonomy searched in an order that prefers the later category
categorize_document_last(text) ==
    LET text_lower == Lower(text)
        hits == { c \in 1..Len(categories) :
                    \E k \in 1..Len(categories[c].keywords) :
                        Contains(text_lower, categories[c].keywords[k]) }
    IN IF ~Truthy(text) \/ hits = {} THEN GENERAL_NOTICE
       ELSE categories[CHOOSE c \in hits : \A d \in hits : d <= c].category

\* categorize_document(text): the first category with a keyword in text.lower()
categorize_document(text) ==
    LET text_lower == Lower(text)
        hits == { c \in 1..Len(categories) :
                    \E k \in 1..Len(categories[c].keywords) :
                        Contains(text_lower, categories[c].keywords[k]) }
    IN IF ~Truthy(text) \/ hits = {} THEN GENERAL_NOTICE
       ELSE categories[Min(hits)].category

MonthAlts ==
    << <<Lit(<<"j","a","n">>)>>, <<Lit(<<"f","e","b">>)>>, <<Lit(<<"m","a","r">>)>>,
       <<Lit(<<"a","p","r">>)>>, <<Lit(<<"m","a","y">>)>>, <<Lit(<<"j","u","n">>)>>,
       <<Lit(<<"j","u","l">>)>>, <<Lit(<<"a","u","g">>)>>, <<Lit(<<"s","e","p">>)>>,
       <<Lit(<<"o","c","t">>)>>, <<Lit(<<"n","o","v">>)>>, <<Lit(<<"d","e","c">>)>> >>

SubjectAlts ==
    << <<Lit(<<"m","a","t","h","e","m","a","t","i","c","s">>)>>,
       <<Lit(<<"p","h","y","s","i","c","s">>)>>,
       <<Lit(<<"c","h","e","m","i","s","t","r","y">>)>>,
       <<Lit(<<"e","n","g","l","i","s","h">>)>>,
       <<Lit(<<"c","o","m","p","u","t","e","r">>)>>,
       <<Lit(<<"s","c","i","e","n","c","e">>)>>,
       <<Lit(<<"p","r","o","g","r","a","m","m","i","n","g">>)>>,
       <<Lit(<<"d","a","t","a">>), Cls(Whitespace, 1, -1), Lit(<<"s","t","r","u","c","t","u","r","e">>)>>,
       <<Lit(<<"a","l","g","o","r","i","t","h","m">>)>>,
       <<Lit(<<"d","a","t","a","b","a","s","e">>)>>,
       <<Lit(<<"n","e","t","w","o","r","k">>)>>,
       <<Lit(<<"s","o","f","t","w","a","r","e">>)>>,
       <<Lit(<<"o","p","e","r","a","t","i","n","g">>), Cls(Whitespace, 1, -1), Lit(<<"s","y","s","t","e","m">>)>> >>

\* r'\b([A-Z]{2,4}[-\s]?\d{3,4}[-\s]?[A-Z]?)\b' (used with re.I)
PaperCodePattern ==
    << WordBoundary, Cls(Letters, 2, 4), Cls({"-"} \cup Whitespace, 0, 1),
       Cls(Digits, 3, 4), Cls({"-"} \cup Whitespace, 0, 1), Cls(Letters, 0, 1),
       WordBoundary >>

\* r'\b(\d{1,2}[-/]\d{1,2}[-/]\d{2,4})\b'
NumericDatePattern ==
    << WordBoundary, Cls(Digits, 1, 2), Cls({"-", "/"}, 1, 1), Cls(Digits, 1, 2),
       Cls({"-", "/"}, 1, 1), Cls(Digits, 2, 4), WordBoundary >>

\* r'\b(\d{1,2}\s+(?:jan|...|dec)[a-z]*\s+\d{2,4})\b' (used with re.I)
NamedDatePattern ==
    << WordBoundary, Cls(Digits, 1, 2), Cls(Whitespace, 1, -1), Alt(MonthAlts),
       Cls(Letters, 0, -1), Cls(Whitespace, 1, -1), Cls(Digits, 2, 4), WordBoundary >>

\* r'\b(\d{1,2}[:\.]?\d{2}\s*(?:am|pm|AM|PM)?)\b'
TimePattern ==
    << WordBoundary, Cls(Digits, 1, 2), Cls({":", "."}, 0, 1), Cls(Digits, 2, 2),
       Cls(Whitespace, 0, -1),
       Optional(<< <<Lit(<<"a","m">>)>>, <<Lit(<<"p","m">>)>>,
                   <<Lit(<<"A","M">>)>>, <<Lit(<<"P","M">>)>> >>),
       WordBoundary >>

\* r'\b(mathematics|...|operating\s+system)\b' (used on text.lower())
SubjectPattern == << WordBoundary, Alt(SubjectAlts), WordBoundary >>

\* the matches extract_key_info collects, in order of occurrence, before
\* it cuts and deduplicates them
paper_code_matches(text) == FindAll(PaperCodePattern, text, TRUE)
date_matches(text) ==
    FindAll(NumericDatePattern, text, FALSE) \o FindAll(NamedDatePattern, text, TRUE)
time_matches(text) == FindAll(TimePattern, text, FALSE)
subject_matches(text) == FindAll(SubjectPattern, Lower(text), FALSE)

\* extract_key_info(text): per key, set(matches[:cap]); a key with no match is
\* absent from the dict, here the empty set
extract_key_info(text) ==
    IF ~Truthy(text)
    THEN [paper_codes |-> {}, dates |-> {}, times |-> {}, subjects |-> {}]
    ELSE [paper_codes |-> Range(Take(paper_code_matches(text), 10)),
          dates |-> Range(Take(date_matches(text), 20)),
          times |-> Range(Take(time_matches(text), 10)),
          subjects |-> Range(Take(subject_matches(text), 10))]

\* the dicts extract_key_info may return: list(set(...)) fixes no order
key_info_lists(text) ==
    LET info == extract_key_info(text)
    IN { [paper_codes |-> pc, dates |-> d, times |-> t, subjects |-> s] :
            pc \in Orderings(info.paper_codes), d \in Orderings(info.dates),
            t \in Orderings(info.times), s \in Orderings(info.subjects) }

\* a summary that lists every fact and the whole text
generate_pdf_summary_uncut(text, key_info, category) ==
    IF ~Truthy(text) THEN UNABLE_TO_EXTRACT
    ELSE Join(<< TYPE_LABEL \o category >>
              \o (IF key_info.paper_codes # <<>>
                  THEN << PAPER_CODES_LABEL \o Join(key_info.paper_codes, COMMA_SEP) >>
                  ELSE <<>>)
              \o (IF key_info.dates # <<>>
                  THEN << DATES_LABEL \o Join(key_info.dates, COMMA_SEP) >> ELSE <<>>)
              \o (IF key_info.times # <<>>
                  THEN << TIMES_LABEL \o Join(key_info.times, COMMA_SEP) >> ELSE <<>>)
              \o (IF key_info.subjects # <<>>
                  THEN << SUBJECTS_LABEL \o Join(key_info.subjects, COMMA_SEP) >>
                  ELSE <<>>)
              \o << CONTENT_LABEL \o Join(Split(text), <<" ">>) >>,
              BAR_SEP)

\* generate_pdf_summary(text, key_info, category)
generate_pdf_summary(text, key_info, category) ==
    IF ~Truthy(text) THEN UNABLE_TO_EXTRACT
    ELSE
    LET words == Take(Split(text), 50)
        joined == Join(words, <<" ">>)
        brief == IF Len(joined) > 200 THEN Take(joined, 200) \o ELLIPSIS ELSE joined
        summary_parts ==
            << TYPE_LABEL \o category >>
            \o (IF key_info.paper_codes # <<>>
                THEN << PAPER_CODES_LABEL \o Join(Take(key_info.paper_codes, 5), COMMA_SEP) >>
                ELSE <<>>)
            \o (IF key_info.dates # <<>>
                THEN << DATES_LABEL \o Join(Take(key_info.dates, 5), COMMA_SEP) >>
                ELSE <<>>)
            \o (IF key_info.times # <<>>
                THEN << TIMES_LABEL \o Join(Take(key_info.times, 3), COMMA_SEP) >>
                ELSE <<>>)
            \o (IF key_info.subjects # <<>>
                THEN << SUBJECTS_LABEL \o Join(Take(key_info.subjects, 5), COMMA_SEP) >>
                ELSE <<>>)
            \o << CONTENT_LABEL \o brief >>
    IN Join(summary_parts, BAR_SEP)

\* what one run of the pipeline may compute from the text it analyses:
\* category = categorize_document(text), summary = generate_pdf_summary(...)
analysis_results(text) ==
    { [category |-> categorize_document(text),
       summary |-> generate_pdf_summary(text, ki, categorize_document(text))] :
        ki \in key_info_lists(text) }

(***************************************************************************)
(* Inputs of the model.                                                    *)
(***************************************************************************)
\* urls are numbered; 0 stands for the empty string
EMPTY_URL == 0
URLS == {1, 2}

Threads == 1..NumThreads

DATE_A == <<"1","2","-","0","1","-","2","0","2","5">>
DATE_B == <<"5"," ","m","a","y"," ","2","0","2","4">>
TITLE_A == <<"M","i","d"," ","S","e","m"," ","E","x","a","m">>
TITLE_B == <<"f","e","e","s">>

Tuple(url, date_text, title) == [url |-> url, date_text |-> date_text, title |-> title]

\* the (date, title, url) tuples a caller of save_announcement may pass
Discovered == { Tuple(1, DATE_B, TITLE_B), Tuple(2, DATE_A, TITLE_A) }

\* what the scrape at start-up may have found
StartupBatches ==
    { <<>>, << Tuple(1, DATE_A, TITLE_A) >>,
      << Tuple(1, DATE_A, TITLE_A), Tuple(2, DATE_B, TITLE_B) >> }

\* what a later scrape may find
SyncBatches ==
    { <<>>, << Tuple(2, DATE_A, TITLE_A) >>,
      << Tuple(1, DATE_B, TITLE_B), Tuple(2, DATE_A, TITLE_A) >> }

Enrich(pdf_summary, category, translated_title) ==
    [pdf_summary |-> pdf_summary, category |-> category,
     translated_title |-> translated_title]

\* the enrichment arguments a caller of save_announcement may pass
EnrichArgs ==
    { Enrich(NULL, NULL, NULL), Enrich(<<"S">>, NULL, NULL), Enrich(NULL, <<"X">>, NULL),
      Enrich(<<>>, <<"X">>, <<"T">>) }

\* the texts a downloaded PDF may hold
PdfTexts ==
    { <<"E","x","a","m"," ","C","S","-","3","0","1">>,
      <<"f","e","e"," ","d","u","e"," ","1","5","-","0","1","-","2","0","2","5">> }

\* what detect_language may answer, and what translate_text may return
Langs == {"en", "hi"}
Translations == PdfTexts \cup { <<>> }

(***************************************************************************)
(* The announcements table and the announcements_fts index (init_db).      *)
(***************************************************************************)
\* the columns announcements_fts projects from a row, keyed by rowid = id
FtsEntry(row) ==
    [rowid |-> row.id, title |-> row.title, date_text |-> row.date_text,
     pdf_summary |-> row.pdf_summary, translated_title |-> row.translated_title,
     category |-> row.category]

\* a table without the AFTER INSERT trigger
announcements_ai_off(fts, new) == fts

\* trigger announcements_ai: AFTER INSERT, add the new row's entry
announcements_ai(fts, new) == fts \cup {FtsEntry(new)}

\* a trigger that forgets the 'delete' of the old entry
announcements_au_nodelete(fts, old, new) == fts \cup {FtsEntry(new)}

\* trigger announcements_au: AFTER UPDATE, 'delete' the old entry, insert the new
announcements_au(fts, old, new) == (fts \ {FtsEntry(old)}) \cup {FtsEntry(new)}

\* the rows WHERE url = ? selects
RowsByUrl(tbl, url) == { i \in 1..Len(tbl) : tbl[i].url = url }

\* a table without the UNIQUE constraint on url
UniqueUrlViolated_off(tbl, url) == FALSE

\* url TEXT UNIQUE: an INSERT of a url the table holds raises IntegrityError
UniqueUrlViolated(tbl, url) == RowsByUrl(tbl, url) # {}

\* a COALESCE that lets the incoming value through even when it is NULL
COALESCE_first(x, y) == x

\* SQL COALESCE(x, y): the first of the two that is not NULL
COALESCE(x, y) == IF x # NULL THEN x ELSE y

\* id INTEGER PRIMARY KEY AUTOINCREMENT: one more than the largest id used; rows
\* are never deleted, so that is the number of rows plus one
NextId(tbl) == Len(tbl) + 1

\* the row INSERT INTO announcements (date_text, title, url, pdf_summary, category,
\* translated_title) VALUES (?, ?, ?, ?, ?, ?) adds; crawled_at DEFAULT
\* CURRENT_TIMESTAMP is a clock that ticks with every insert
NewRow(tbl, date_text, title, url, pdf_summary, category, translated_title) ==
    [id |-> NextId(tbl), date_text |-> date_text, title |-> title, url |-> url,
     crawled_at |-> NextId(tbl),
     pdf_summary |-> pdf_summary, category |-> category,
     translated_title |-> translated_title]

\* the table after UPDATE announcements SET pdf_summary = COALESCE(?, pdf_summary),
\* category = COALESCE(?, category), translated_title = COALESCE(?, translated_title)
\* WHERE url = ?
UpdateCoalesce(tbl, url, pdf_summary, category, translated_title) ==
    [i \in 1..Len(tbl) |->
        IF tbl[i].url = url
        THEN [tbl[i] EXCEPT !.pdf_summary = COALESCE(pdf_summary, @),
                            !.category = COALESCE(category, @),
                            !.translated_title = COALESCE(translated_title, @)]
        ELSE tbl[i]]

\* an UPDATE that inserts the row when no row has the url
UpdateAnalysis_upsert(tbl, url, pdf_summary, category) ==
    IF RowsByUrl(tbl, url) = {}
    THEN Append(tbl, NewRow(tbl, NULL, NULL, url, pdf_summary, category, NULL))
    ELSE [i \in 1..Len(tbl) |->
            IF tbl[i].url = url
            THEN [tbl[i] EXCEPT !.pdf_summary = pdf_summary, !.category = category]
            ELSE tbl[i]]

\* an UPDATE that sets the summary and leaves the category for a later statement
UpdateAnalysis_summary(tbl, url, pdf_summary, category) ==
    [i \in 1..Len(tbl) |->
        IF tbl[i].url = url THEN [tbl[i] EXCEPT !.pdf_summary = pdf_summary] ELSE tbl[i]]

\* the table after UPDATE announcements SET pdf_summary = ?, category = ? WHERE url = ?
UpdateAnalysis(tbl, url, pdf_summary, category) ==
    [i \in 1..Len(tbl) |->
        IF tbl[i].url = url
        THEN [tbl[i] EXCEPT !.pdf_summary = pdf_summary, !.category = category]
        ELSE tbl[i]]

RECURSIVE FtsAfterUpdate(_, _, _, _, _)
\* the index once the AFTER UPDATE trigger has run for every row the UPDATE ...
\* WHERE url = ? touched (old: the rows before, new: the rows after, from row i on)
FtsAfterUpdate(fts, old, new, url, i) ==
    IF i > Len(old) THEN fts
    ELSE FtsAfterUpdate(IF old[i].url = url
                        THEN announcements_au(fts, old[i], new[i]) ELSE fts,
                        old, new, url, i + 1)

(***************************************************************************)
(* save_announcement's statements on the database, as one function of the  *)
(* table, the index, what its SELECT found and its arguments f.            *)
(***************************************************************************)
\* `if pdf_summary or category or translated_title`
HasEnrichment(f) ==
    Truthy(f.pdf_summary) \/ Truthy(f.category) \/ Truthy(f.translated_title)

\* a save_announcement that overwrites date_text and title of the row it finds
save_announcement_db_overwrite(tbl, fts, existing, f) ==
    LET updated == [i \in 1..Len(tbl) |->
                      IF tbl[i].url = f.url
                      THEN [tbl[i] EXCEPT !.date_text = f.date_text, !.title = f.title]
                      ELSE tbl[i]]
    IN IF RowsByUrl(tbl, f.url) # {}
       THEN [tbl |-> updated, fts |-> FtsAfterUpdate(fts, tbl, updated, f.url, 1),
             status |-> "updated", rowcount |-> Cardinality(RowsByUrl(tbl, f.url))]
       ELSE LET row == NewRow(tbl, f.date_text, f.title, f.url, f.pdf_summary,
                              f.category, f.translated_title)
            IN [tbl |-> Append(tbl, row), fts |-> announcements_ai(fts, row),
                status |-> "inserted", rowcount |-> 1]

\* the branch after the SELECT: UPDATE ... COALESCE when a row was found and an
\* enrichment value is truthy, INSERT when none was found; an IntegrityError of
\* the INSERT is caught and printed, and nothing is written
save_announcement_db(tbl, fts, existing, f) ==
    IF existing
    THEN IF HasEnrichment(f)
         THEN LET updated == UpdateCoalesce(tbl, f.url, f.pdf_summary, f.category,
                                            f.translated_title)
              IN [tbl |-> updated, fts |-> FtsAfterUpdate(fts, tbl, updated, f.url, 1),
                  status |-> "updated", rowcount |-> Cardinality(RowsByUrl(tbl, f.url))]
         ELSE [tbl |-> tbl, fts |-> fts, status |-> "unchanged", rowcount |-> 0]
    ELSE IF UniqueUrlViolated(tbl, f.url)
         THEN [tbl |-> tbl, fts |-> fts, status |-> "integrity_error", rowcount |-> 0]
         ELSE LET row == NewRow(tbl, f.date_text, f.title, f.url, f.pdf_summary,
                                f.category, f.translated_title)
              IN [tbl |-> Append(tbl, row), fts |-> announcements_ai(fts, row),
                  status |-> "inserted", rowcount |-> 1]

\* the arguments of a plain save_announcement(date_text, title, href)
PlainArgs(tuple) ==
    [date_text |-> tuple.date_text, title |-> tuple.title, url |-> tuple.url,
     pdf_summary |-> NULL, category |-> NULL, translated_title |-> NULL]

RECURSIVE SaveAll(_, _)
\* the database after save_announcement ran for each tuple of a batch, one
\* call after the other, from the database db
SaveAll(db, batch) ==
    IF batch = <<>> THEN db
    ELSE LET f == PlainArgs(Head(batch))
         IN SaveAll(save_announcement_db(db.tbl, db.fts, RowsByUrl(db.tbl, f.url) # {}, f),
                    Tail(batch))

\* init_db() on a new file: both tables empty
EmptyDb == [tbl |-> <<>>, fts |-> {}, status |-> "created", rowcount |-> 0]

(***************************************************************************)
(* State.                                                                  *)
(***************************************************************************)
VARIABLES
    announcements,      \* the announcements table: its rows in id order
    announcements_fts,  \* the FTS index: a set of entries
    PDF_AVAILABLE,      \* whether pdfplumber could be imported
    th,                 \* per request thread: the handler it runs and its locals
    tasks,              \* what was submitted to the executor, in submission order
    ncalls,             \* handler invocations so far
    last,               \* the handler that returned or wrote last (observation)
    resp                \* the response of the last /api/data or /api/search

vars == <<announcements, announcements_fts, PDF_AVAILABLE, th, tasks, ncalls, last, resp>>

\* ThreadPoolExecutor(max_workers=4)
max_workers == 4

\* a request is served by a thread of its own: the idle thread of least number
\* stands for it
Accepts(frames, t) ==
    /\ frames[t].pc = "idle"
    /\ \A u \in Threads : frames[u].pc = "idle" => t <= u

IdleFrame ==
    [pc |-> "idle", op |-> "none", date_text |-> NULL, title |-> NULL,
     url |-> EMPTY_URL, pdf_summary |-> NULL, category |-> NULL,
     translated_title |-> NULL, existing |-> FALSE, batch |-> <<>>, i |-> 0,
     urls_to_analyze |-> <<>>, count |-> 0, analyze_pdfs |-> FALSE]

\* the frame of a call of save_announcement with arguments a, made by handler op
SaveFrame(frame, op, a) ==
    [frame EXCEPT !.pc = "save_select", !.op = op, !.date_text = a.date_text,
        !.title = a.title, !.url = a.url, !.pdf_summary = a.pdf_summary,
        !.category = a.category, !.translated_title = a.translated_title,
        !.existing = FALSE]

\* what a handler did: the url it was about, how it ended, the rows its statement
\* wrote (cursor.rowcount), for scrape_and_sync the count it returned, and for an
\* analysis the summary and category it wrote or answered with
Observe(op, status, rowcount, f) ==
    LET answers == status \in {"analyzed", "cached"} IN
    [op |-> op, status |-> status, rowcount |-> rowcount, url |-> f.url,
     count |-> f.count,
     pdf_summary |-> IF answers THEN f.pdf_summary ELSE NULL,
     category |-> IF answers THEN f.category ELSE NULL]

NoResponse == [route |-> "none", status |-> 0, rows |-> <<>>]

\* the state when the server starts to serve: init_db(), then
\* scrape_and_sync(analyze_pdfs=False) over what the page held
Init ==
    /\ \E batch \in StartupBatches :
          /\ announcements = SaveAll(EmptyDb, batch).tbl
          /\ announcements_fts = SaveAll(EmptyDb, batch).fts
    /\ PDF_AVAILABLE \in BOOLEAN
    /\ th = [t \in Threads |-> IdleFrame]
    /\ tasks = <<>>
    /\ ncalls = 0
    /\ last = Observe("none", "none", 0, IdleFrame)
    /\ resp = NoResponse

(***************************************************************************)
(* save_announcement(date_text, title, url, pdf_summary, category,         *)
(* translated_title)                                                       *)
(***************************************************************************)
\* a caller other than scrape_and_sync enters save_announcement
save_announcement_call(t, tuple, en) ==
    /\ Accepts(th, t)
    /\ ncalls < MaxCalls
    /\ ncalls' = ncalls + 1
    /\ th' = [th EXCEPT ![t] =
                SaveFrame(IdleFrame, "save",
                          [date_text |-> tuple.date_text, title |-> tuple.title,
                           url |-> tuple.url, pdf_summary |-> en.pdf_summary,
                           category |-> en.category,
                           translated_title |-> en.translated_title])]
    /\ UNCHANGED <<announcements, announcements_fts, PDF_AVAILABLE, tasks, last, resp>>

\* c.execute("SELECT id FROM announcements WHERE url = ?"); existing = c.fetchone()
save_announcement_select(t) ==
    /\ th[t].pc = "save_select"
    /\ th' = [th EXCEPT ![t].pc = "save_write",
                        ![t].existing = (RowsByUrl(announcements, th[t].url) # {})]
    /\ UNCHANGED <<announcements, announcements_fts, PDF_AVAILABLE, tasks, ncalls, last, resp>>

\* where the caller goes on once save_announcement has returned: scrape_and_sync
\* appends the url, counts, and takes the next tuple or leaves its loops
AfterSave(f) ==
    IF f.op = "sync"
    THEN LET g == [f EXCEPT !.urls_to_analyze = Append(@, f.url), !.count = @ + 1,
                            !.i = @ + 1]
         IN IF g.i <= Len(g.batch)
            THEN SaveFrame(g, "sync", PlainArgs(g.batch[g.i]))
            ELSE [g EXCEPT !.pc = "sync_submit", !.i = 1]
    ELSE IdleFrame

\* the UPDATE or INSERT, conn.commit(), the except, and the return
save_announcement_write(t) ==
    LET f == th[t]
        db == save_announcement_db(announcements, announcements_fts, f.existing, f)
    IN
    /\ f.pc = "save_write"
    /\ announcements' = db.tbl
    /\ announcements_fts' = db.fts
    /\ th' = [th EXCEPT ![t] = AfterSave(f)]
    /\ last' = Observe("save", db.status, db.rowcount, f)
    /\ UNCHANGED <<PDF_AVAILABLE, tasks, ncalls, resp>>

(***************************************************************************)
(* scrape_and_sync(analyze_pdfs=True), from the tuples of the fetched page *)
(***************************************************************************)
\* the submissions a running scrape_and_sync has yet to make
ToSubmit(f) ==
    IF f.op # "sync" THEN 0
    ELSE IF f.pc = "sync_submit" THEN Len(f.batch) - (f.i - 1)
    ELSE Len(f.batch)

RECURSIVE PromisedBy(_, _)
PromisedBy(frames, S) ==
    IF S = {} THEN 0
    ELSE LET t == CHOOSE u \in S : TRUE
         IN ToSubmit(frames[t]) + PromisedBy(frames, S \ {t})

Promised(frames) == PromisedBy(frames, Threads)

\* requests.get raised: `return False, 0`
scrape_and_sync_failed(t) ==
    /\ Accepts(th, t)
    /\ ncalls < MaxCalls
    /\ ncalls' = ncalls + 1
    /\ last' = Observe("sync", "fetch_failed", 0, IdleFrame)
    /\ UNCHANGED <<announcements, announcements_fts, PDF_AVAILABLE, th, tasks, resp>>

\* the page was fetched and holds the tuples of batch: enter the loops
scrape_and_sync_call(t, batch) ==
    LET f == [IdleFrame EXCEPT !.op = "sync", !.batch = batch, !.i = 1,
                               !.analyze_pdfs = TRUE]
    IN
    /\ Accepts(th, t)
    /\ ncalls < MaxCalls
    /\ Len(tasks) + Promised(th) + Len(batch) <= MaxTasks
    /\ ncalls' = ncalls + 1
    /\ th' = [th EXCEPT ![t] =
                IF batch = <<>> THEN [f EXCEPT !.pc = "sync_submit"]
                ELSE SaveFrame(f, "sync", PlainArgs(batch[1]))]
    /\ UNCHANGED <<announcements, announcements_fts, PDF_AVAILABLE, tasks, last, resp>>

\* a task as executor.submit(task) queues it
NewTask(url) ==
    [url |-> url, state |-> "Queued", step |-> "none", pdf_summary |-> NULL,
     category |-> NULL]

\* `for url in urls_to_analyze[:20]: analyze_pdf_async(url)`, one submit per step,
\* and `return True, count` with or after the last of them
scrape_and_sync_submit(t) ==
    LET f == th[t]
        todo == IF f.analyze_pdfs /\ PDF_AVAILABLE THEN Take(f.urls_to_analyze, 20) ELSE <<>>
    IN
    /\ f.pc = "sync_submit"
    /\ tasks' = IF f.i <= Len(todo) THEN Append(tasks, NewTask(todo[f.i])) ELSE tasks
    /\ IF f.i < Len(todo)
       THEN /\ th' = [th EXCEPT ![t].i = @ + 1]
            /\ UNCHANGED last
       ELSE /\ th' = [th EXCEPT ![t] = IdleFrame]
            /\ last' = Observe("sync", "returned", 0, f)
    /\ UNCHANGED <<announcements, announcements_fts, PDF_AVAILABLE, ncalls, resp>>

(***************************************************************************)
(* The pipeline both analyses run: download_pdf, extract_pdf_text,         *)
(* detect_language, translate_text, then category and summary.             *)
(***************************************************************************)
\* what download_pdf may return: None (request failed, not a PDF) or the bytes
PDF_BYTES == <<"%","P","D","F">>
DownloadOutcomes == { NULL, PDF_BYTES }

\* what pdfplumber may get out of the bytes: an exception (None), no text, a text
ExtractOutcomes == { NULL, <<>> } \cup PdfTexts

\* extract_pdf_text(pdf_bytes), pdfplumber yielding `extracted`
extract_pdf_text(pdf_bytes, available, extracted) ==
    IF ~available \/ pdf_bytes = NULL THEN NULL ELSE extracted

\* an analysis of the translation alone, whether there is one or not
analysis_text_translated(text, lang, tr) == IF lang = "hi" THEN tr ELSE NULL

\* `analysis_text = translated_text or text`, translate_text returning tr
analysis_text(text, lang, tr) ==
    LET translated_text == IF lang = "hi" THEN tr ELSE NULL
    IN IF Truthy(translated_text) THEN translated_text ELSE text

\* how the lines both analyses share may end, pdfplumber importable or not:
\* download_pdf returned None, extract_pdf_text returned nothing, or a category
\* and a summary were computed
PipelineOutcomes(available) ==
    UNION { LET text == extract_pdf_text(pdf_bytes, available, extracted) IN
            IF pdf_bytes = NULL
            THEN { [end |-> "error_download", pdf_summary |-> NULL, category |-> NULL] }
            ELSE IF ~Truthy(text)
            THEN { [end |-> "error_extract", pdf_summary |-> NULL, category |-> NULL] }
            ELSE { [end |-> "analyzed", pdf_summary |-> r.summary, category |-> r.category] :
                     r \in analysis_results(analysis_text(text, lang, tr)) } :
            pdf_bytes \in DownloadOutcomes, extracted \in ExtractOutcomes,
            lang \in Langs, tr \in Translations }

\* the outcomes, computed once
PipelineTable == [available \in BOOLEAN |-> PipelineOutcomes(available)]

(***************************************************************************)
(* /api/analyze: analyze_pdf()                                             *)
(***************************************************************************)
\* an /api/analyze that never looks for a stored summary
analyze_pdf_call_nocache(t, url) ==
    LET f == [IdleFrame EXCEPT !.op = "analyze", !.url = url] IN
    /\ Accepts(th, t)
    /\ ncalls < MaxCalls
    /\ ncalls' = ncalls + 1
    /\ IF url = EMPTY_URL
       THEN /\ last' = Observe("analyze", "error_no_url", 0, f)
            /\ UNCHANGED th
       ELSE /\ th' = [th EXCEPT ![t] = [f EXCEPT !.pc = "analyze_download"]]
            /\ UNCHANGED last
    /\ UNCHANGED <<announcements, announcements_fts, PDF_AVAILABLE, tasks, resp>>

\* the request arrives: no url, or the SELECT finds a summary (cached), or the
\* analysis starts
analyze_pdf_call(t, url) ==
    LET rows == RowsByUrl(announcements, url)
        row == announcements[CHOOSE i \in rows : TRUE]
        f == [IdleFrame EXCEPT !.op = "analyze", !.url = url]
    IN
    /\ Accepts(th, t)
    /\ ncalls < MaxCalls
    /\ ncalls' = ncalls + 1
    /\ IF url = EMPTY_URL
       THEN /\ last' = Observe("analyze", "error_no_url", 0, f)
            /\ UNCHANGED th
       ELSE IF rows # {} /\ Truthy(row.pdf_summary)
       THEN /\ last' = Observe("analyze", "cached", 0,
                               [f EXCEPT !.pdf_summary = row.pdf_summary,
                                         !.category = row.category])
            /\ UNCHANGED th
       ELSE /\ th' = [th EXCEPT ![t] = [f EXCEPT !.pc = "analyze_download"]]
            /\ UNCHANGED last
    /\ UNCHANGED <<announcements, announcements_fts, PDF_AVAILABLE, tasks, resp>>

\* an /api/analyze that records "Unable to extract" in the record when it has
\* nothing to analyse
analyze_pdf_download_writes(t) ==
    LET f == th[t]
        updated == UpdateAnalysis(announcements, f.url, UNABLE_TO_EXTRACT, GENERAL_NOTICE)
    IN
    /\ f.pc = "analyze_download"
    /\ \E o \in PipelineTable[PDF_AVAILABLE] :
          IF o.end # "analyzed"
          THEN /\ th' = [th EXCEPT ![t] = IdleFrame]
               /\ last' = Observe("analyze", o.end, 0, f)
               /\ announcements' = updated
               /\ announcements_fts' =
                      FtsAfterUpdate(announcements_fts, announcements, updated, f.url, 1)
          ELSE /\ th' = [th EXCEPT ![t].pc = "analyze_update",
                                   ![t].pdf_summary = o.pdf_summary,
                                   ![t].category = o.category]
               /\ UNCHANGED <<last, announcements, announcements_fts>>
    /\ UNCHANGED <<PDF_AVAILABLE, tasks, ncalls, resp>>

\* download, extraction, language, category, key info and summary
analyze_pdf_download(t) ==
    LET f == th[t] IN
    /\ f.pc = "analyze_download"
    /\ \E o \in PipelineTable[PDF_AVAILABLE] :
          IF o.end # "analyzed"
          THEN /\ th' = [th EXCEPT ![t] = IdleFrame]
               /\ last' = Observe("analyze", o.end, 0, f)
          ELSE /\ th' = [th EXCEPT ![t].pc = "analyze_update",
                                   ![t].pdf_summary = o.pdf_summary,
                                   ![t].category = o.category]
               /\ UNCHANGED last
    /\ UNCHANGED <<announcements, announcements_fts, PDF_AVAILABLE, tasks, ncalls, resp>>

\* UPDATE announcements SET pdf_summary = ?, category = ? WHERE url = ?, commit,
\* and the response with cached = False
analyze_pdf_update(t) ==
    LET f == th[t]
        updated == UpdateAnalysis(announcements, f.url, f.pdf_summary, f.category)
    IN
    /\ f.pc = "analyze_update"
    /\ announcements' = updated
    /\ announcements_fts' = FtsAfterUpdate(announcements_fts, announcements, updated, f.url, 1)
    /\ th' = [th EXCEPT ![t] = IdleFrame]
    /\ last' = Observe("analyze", "analyzed", Cardinality(RowsByUrl(announcements, f.url)), f)
    /\ UNCHANGED <<PDF_AVAILABLE, tasks, ncalls, resp>>

(***************************************************************************)
(* analyze_pdf_async(url): the task the executor runs                      *)
(***************************************************************************)
\* the tasks that hold a worker, in a pool whose workers end with their first task
Running_spent == { k \in 1..Len(tasks) : tasks[k].state # "Queued" }

\* the tasks that hold a worker
Running == { k \in 1..Len(tasks) : tasks[k].state = "Running" }

\* analyze_pdf_async(url) called on its own: executor.submit(task)
analyze_pdf_async_call(url) ==
    /\ ncalls < MaxCalls
    /\ Len(tasks) < MaxTasks
    /\ ncalls' = ncalls + 1
    /\ tasks' = Append(tasks, NewTask(url))
    /\ UNCHANGED <<announcements, announcements_fts, PDF_AVAILABLE, th, last, resp>>

\* a pool that starts a thread for every task
task_start_unbounded(k) ==
    /\ tasks[k].state = "Queued"
    /\ \A j \in 1..(k - 1) : tasks[j].state # "Queued"
    /\ tasks' = [tasks EXCEPT ![k].state = "Running", ![k].step = "download"]
    /\ UNCHANGED <<announcements, announcements_fts, PDF_AVAILABLE, th, ncalls, last, resp>>

\* a worker of the pool takes the task queued first
task_start(k) ==
    /\ tasks[k].state = "Queued"
    /\ \A j \in 1..(k - 1) : tasks[j].state # "Queued"
    /\ Cardinality(Running) < max_workers
    /\ tasks' = [tasks EXCEPT ![k].state = "Running", ![k].step = "download"]
    /\ UNCHANGED <<announcements, announcements_fts, PDF_AVAILABLE, th, ncalls, last, resp>>

\* a task that records "Unable to extract" in the record when it has nothing to
\* analyse
task_download_writes(k) ==
    \E o \in PipelineTable[PDF_AVAILABLE] :
       LET updated == UpdateAnalysis(announcements, tasks[k].url, UNABLE_TO_EXTRACT,
                                     GENERAL_NOTICE)
       IN
       /\ tasks[k].state = "Running"
       /\ tasks[k].step = "download"
       /\ IF o.end # "analyzed"
          THEN /\ tasks' = [tasks EXCEPT ![k].state = "Skipped", ![k].step = "none"]
               /\ announcements' = updated
               /\ announcements_fts' = FtsAfterUpdate(announcements_fts, announcements,
                                                      updated, tasks[k].url, 1)
          ELSE /\ tasks' = [tasks EXCEPT ![k].step = "update",
                                         ![k].pdf_summary = o.pdf_summary,
                                         ![k].category = o.category]
               /\ UNCHANGED <<announcements, announcements_fts>>
       /\ UNCHANGED <<PDF_AVAILABLE, th, ncalls, last, resp>>

\* the task up to its UPDATE: it returns (Skipped) when there is nothing to analyse
task_download(k) ==
    /\ tasks[k].state = "Running"
    /\ tasks[k].step = "download"
    /\ \E o \in PipelineTable[PDF_AVAILABLE] :
          IF o.end # "analyzed"
          THEN tasks' = [tasks EXCEPT ![k].state = "Skipped", ![k].step = "none"]
          ELSE tasks' = [tasks EXCEPT ![k].step = "update",
                                      ![k].pdf_summary = o.pdf_summary,
                                      ![k].category = o.category]
    /\ UNCHANGED <<announcements, announcements_fts, PDF_AVAILABLE, th, ncalls, last, resp>>

\* UPDATE announcements SET pdf_summary = ?, category = ? WHERE url = ?, commit
task_update(k) ==
    LET task == tasks[k]
        updated == UpdateAnalysis(announcements, task.url, task.pdf_summary, task.category)
    IN
    /\ task.state = "Running"
    /\ task.step = "update"
    /\ announcements' = updated
    /\ announcements_fts' =
          FtsAfterUpdate(announcements_fts, announcements, updated, task.url, 1)
    /\ tasks' = [tasks EXCEPT ![k] = [NewTask(task.url) EXCEPT !.state = "Updated"]]
    /\ last' = Observe("task", "analyzed", Cardinality(RowsByUrl(announcements, task.url)),
                       [IdleFrame EXCEPT !.url = task.url, !.pdf_summary = task.pdf_summary,
                                         !.category = task.category])
    /\ UNCHANGED <<PDF_AVAILABLE, th, ncalls, resp>>

(***************************************************************************)
(* The server: request threads and pool workers, interleaved.              *)
(***************************************************************************)
\* the server as deployed: /api/sync, /api/analyze and the pool's workers
Next ==
    \/ \E t \in Threads : scrape_and_sync_failed(t)
    \/ \E t \in Threads, batch \in SyncBatches : scrape_and_sync_call(t, batch)
    \/ \E t \in Threads : save_announcement_select(t)
    \/ \E t \in Threads : save_announcement_write(t)
    \/ \E t \in Threads : scrape_and_sync_submit(t)
    \/ \E t \in Threads, url \in URLS \cup {EMPTY_URL} : analyze_pdf_call(t, url)
    \/ \E t \in Threads : analyze_pdf_download(t)
    \/ \E t \in Threads : analyze_pdf_update(t)
    \/ \E k \in 1..Len(tasks) : task_start(k)
    \/ \E k \in 1..Len(tasks) : task_download(k)
    \/ \E k \in 1..Len(tasks) : task_update(k)

Spec == Init /\ [][Next]_vars

\* the record store under its writers: save_announcement with any of its
\* arguments, /api/analyze and analyze_pdf_async, on concurrent threads
NextStore ==
    \/ \E t \in Threads, tuple \in Discovered, en \in EnrichArgs :
            save_announcement_call(t, tuple, en)
    \/ \E t \in Threads : save_announcement_select(t)
    \/ \E t \in Threads : save_announcement_write(t)
    \/ \E t \in Threads, url \in URLS \cup {EMPTY_URL} : analyze_pdf_call(t, url)
    \/ \E t \in Threads : analyze_pdf_download(t)
    \/ \E t \in Threads : analyze_pdf_update(t)
    \/ \E url \in URLS : analyze_pdf_async_call(url)
    \/ \E k \in 1..Len(tasks) : task_start(k)
    \/ \E k \in 1..Len(tasks) : task_download(k)
    \/ \E k \in 1..Len(tasks) : task_update(k)

SpecStore == Init /\ [][NextStore]_vars

(***************************************************************************)
(* Reading the store: the SELECTs of /api/data and /api/search.            *)
(***************************************************************************)
\* request.args.get('limit', 100)
DEFAULT_LIMIT == 100
\* min(..., 500)
MAX_LIMIT == 500
\* ... ORDER BY id DESC LIMIT 100, in each SELECT of comprehensive_search
SEARCH_LIMIT == 100

\* a SELECT without its ORDER BY: the rows by ascending id
OrderByIdDesc_asc(rows) == rows

\* ORDER BY id DESC, of rows listed by ascending id
OrderByIdDesc(rows) == [i \in 1..Len(rows) |-> rows[Len(rows) + 1 - i]]

\* LIMIT n: the first n rows; SQLite takes a negative n as no limit at all
LIMIT(rows, n) == IF n < 0 THEN rows ELSE Take(rows, n)

DigitChars == <<"0","1","2","3","4","5","6","7","8","9">>
DigitOf(c) == (CHOOSE d \in 1..10 : DigitChars[d] = c) - 1

RECURSIVE DigitsValue(_, _)
DigitsValue(s, acc) ==
    IF s = <<>> THEN acc ELSE DigitsValue(Tail(s), 10 * acc + DigitOf(Head(s)))

\* int(s) of a str: surrounding whitespace, a sign, decimal digits; anything else
\* raises ValueError
int(s) ==
    LET t == Strip(s)
        signed == t # <<>> /\ Head(t) \in {"-", "+"}
        body == IF signed THEN Tail(t) ELSE t
    IN IF body = <<>> \/ \E i \in 1..Len(body) : body[i] \notin Digits
       THEN [raised |-> TRUE, value |-> 0]
       ELSE [raised |-> FALSE,
             value |-> IF Head(t) = "-" THEN 0 - DigitsValue(body, 0)
                       ELSE DigitsValue(body, 0)]

\* get_data(): category and limit as request.args holds them (limit NULL when
\* the parameter is absent, category '' when absent); an exception of int() makes
\* Flask answer 500
get_data(tbl, category, limit_arg) ==
    LET n == IF limit_arg = NULL THEN [raised |-> FALSE, value |-> DEFAULT_LIMIT]
             ELSE int(limit_arg)
        limit == Min({n.value, MAX_LIMIT})
        rows == IF category # <<>>
                THEN SelectSeq(tbl, LAMBDA r : r.category = category)
                ELSE tbl
    IN IF n.raised THEN [status |-> 500, rows |-> <<>>]
       ELSE [status |-> 200, rows |-> LIMIT(OrderByIdDesc(rows), limit)]

(***************************************************************************)
(* FTS5: the unicode61 tokenizer, query strings, and MATCH.                *)
(***************************************************************************)
TokenChars == Letters \cup Digits

RECURSIVE TokensFrom(_, _, _)
\* the tokens of s: the maximal runs of letters and digits, in lower case
TokensFrom(s, i, cur) ==
    IF i > Len(s) THEN (IF cur = <<>> THEN <<>> ELSE <<cur>>)
    ELSE IF s[i] \notin TokenChars
         THEN (IF cur = <<>> THEN <<>> ELSE <<cur>>) \o TokensFrom(s, i + 1, <<>>)
         ELSE TokensFrom(s, i + 1, Append(cur, ToLower(s[i])))

\* a NULL column holds no token
Tokenize(s) == IF s = NULL THEN <<>> ELSE TokensFrom(s, 1, <<>>)

IsPrefix(p, s) == Len(p) <= Len(s) /\ SubSeq(s, 1, Len(p)) = p

\* whether the tokens of a column hold the phrase: its tokens in a row, the
\* last one as a prefix when the phrase is marked with *; a phrase without a
\* token matches nothing
PhraseIn(doc, phrase, prefix) ==
    /\ phrase # <<>>
    /\ \E start \in 1..(Len(doc) - Len(phrase) + 1) :
          \A j \in 1..Len(phrase) :
             IF j = Len(phrase) /\ prefix
             THEN IsPrefix(phrase[j], doc[start + j - 1])
             ELSE doc[start + j - 1] = phrase[j]

RECURSIVE StringEnd(_, _)
\* the position of the quote that closes the FTS5 string whose text starts at i
\* ("" inside it is a quote), or 0 when the string is not terminated
StringEnd(q, i) ==
    IF i > Len(q) THEN 0
    ELSE IF q[i] # "\"" THEN StringEnd(q, i + 1)
    ELSE IF i < Len(q) /\ q[i + 1] = "\"" THEN StringEnd(q, i + 2)
    ELSE i

RECURSIVE Fts5ParseFrom(_, _, _)
\* the FTS5 query q from position i: quoted strings, each with or without a *,
\* joined by OR or following one another (AND); whatever else (an apostrophe, an
\* unterminated string) is a syntax error
Fts5ParseFrom(q, i, acc) ==
    IF i > Len(q) THEN acc
    ELSE IF q[i] \in Whitespace THEN Fts5ParseFrom(q, i + 1, acc)
    ELSE IF q[i] = "\""
    THEN LET close == StringEnd(q, i + 1)
             star == close < Len(q) /\ q[close + 1] = "*"
             phrase == [tokens |-> Tokenize(SubSeq(q, i + 1, close - 1)),
                        prefix |-> star]
         IN IF close = 0 THEN [acc EXCEPT !.error = TRUE]
            ELSE Fts5ParseFrom(q, IF star THEN close + 2 ELSE close + 1,
                               [acc EXCEPT !.phrases = Append(@, phrase)])
    ELSE IF /\ acc.phrases # <<>>
            /\ i + 2 <= Len(q)
            /\ SubSeq(q, i, i + 2) = <<"O", "R", " ">>
    THEN Fts5ParseFrom(q, i + 3, [acc EXCEPT !.or = TRUE])
    ELSE [acc EXCEPT !.error = TRUE]

Fts5Parse(q) == Fts5ParseFrom(q, 1, [error |-> FALSE, phrases |-> <<>>, or |-> FALSE])

\* announcements_fts MATCH ?: whether the entry matches the parsed query, a
\* phrase being looked for in each of the five columns
FtsMatch(entry, parsed) ==
    LET cols == << Tokenize(entry.title), Tokenize(entry.date_text),
                   Tokenize(entry.pdf_summary), Tokenize(entry.translated_title),
                   Tokenize(entry.category) >>
        Hit(ph) == \E c \in 1..5 : PhraseIn(cols[c], ph.tokens, ph.prefix)
    IN IF parsed.or
       THEN \E k \in 1..Len(parsed.phrases) : Hit(parsed.phrases[k])
       ELSE \A k \in 1..Len(parsed.phrases) : Hit(parsed.phrases[k])

OR_SEP == <<" ", "O", "R", " ">>

\* build_fts_query(query): '"token"*' for each token of the query that is not
\* empty once its quotes are removed, joined by ' OR '; the query itself when
\* there is none
build_fts_query(query) ==
    LET tokens == Split(query)
        cleaned == [i \in 1..Len(tokens) |->
                      SelectSeq(tokens[i], LAMBDA c : c \notin {"\"", "'"})]
        kept == SelectSeq(cleaned, LAMBDA token : token # <<>>)
        fts_tokens == [i \in 1..Len(kept) |-> <<"\"">> \o kept[i] \o <<"\"", "*">>]
    IN IF fts_tokens # <<>> THEN Join(fts_tokens, OR_SEP) ELSE query

(***************************************************************************)
(* The LIKE tier: extract_date_patterns, extract_text_parts, LIKE.         *)
(***************************************************************************)
\* r'\b(20\d{2})\b'
YearPattern == << WordBoundary, Lit(<<"2", "0">>), Cls(Digits, 2, 2), WordBoundary >>

\* r'\b(jan|feb|mar|apr|may|jun|jul|aug|sep|oct|nov|dec)\w*\b' (used with re.I)
MonthPattern == << WordBoundary, Alt(MonthAlts), Cls(WordChars, 0, -1), WordBoundary >>

\* extract_date_patterns(query): the numeric dates, then the years, then of each
\* word that starts with a month its group, the three letters of the month
extract_date_patterns(query) ==
    LET matches == FindAll(NumericDatePattern, query, FALSE)
        year_matches == FindAll(YearPattern, query, FALSE)
        month_words == FindAll(MonthPattern, query, TRUE)
        month_matches == [i \in 1..Len(month_words) |-> Take(month_words[i], 3)]
    IN matches \o year_matches \o month_matches

RECURSIVE Sub(_, _, _, _)
\* re.sub(p, repl, s), from position pos of s
Sub(p, repl, s, pos) ==
    IF pos > Len(s) THEN <<>>
    ELSE LET e == Match(p, s, pos, FALSE) IN
         IF e = -1 \/ e = pos THEN <<s[pos]>> \o Sub(p, repl, s, pos + 1)
         ELSE repl \o Sub(p, repl, s, e)

\* extract_text_parts(query): the words of more than one character that are left
\* once numeric dates and years are blanked
extract_text_parts(query) ==
    LET cleaned == Sub(YearPattern, <<" ">>, Sub(NumericDatePattern, <<" ">>, query, 1), 1)
    IN SelectSeq(Split(cleaned), LAMBDA w : Len(Strip(w)) > 1)

RECURSIVE LikeFrom(_, _, _, _)
\* SQLite's LIKE from position i of the pattern and j of the value: % stands for
\* any characters, _ for one, letters compare without case
LikeFrom(pat, i, s, j) ==
    IF i > Len(pat) THEN j > Len(s)
    ELSE IF pat[i] = "%"
         THEN i = Len(pat) \/ \E k \in j..(Len(s) + 1) : LikeFrom(pat, i + 1, s, k)
         ELSE /\ j <= Len(s)
              /\ (pat[i] = "_" \/ ToLower(pat[i]) = ToLower(s[j]))
              /\ LikeFrom(pat, i + 1, s, j + 1)

\* value LIKE pat; NULL is like nothing
LIKE(value, pat) == value # NULL /\ LikeFrom(pat, 1, value, 1)

\* the WHERE of the LIKE tier: each text part in title, date_text, pdf_summary
\* or translated_title, AND each date pattern in date_text
LikeWhere(row, text_parts, date_patterns) ==
    /\ \A k \in 1..Len(text_parts) :
          LET search_term == <<"%">> \o text_parts[k] \o <<"%">>
          IN \/ LIKE(row.title, search_term)
             \/ LIKE(row.date_text, search_term)
             \/ LIKE(row.pdf_summary, search_term)
             \/ LIKE(row.translated_title, search_term)
    /\ \A k \in 1..Len(date_patterns) :
          LIKE(row.date_text, <<"%">> \o date_patterns[k] \o <<"%">>)

\* the branch of the empty query that lists everything
search_all_unlimited(tbl) == OrderByIdDesc(tbl)

\* `if not query`: SELECT * FROM announcements ORDER BY id DESC LIMIT 100
search_all(tbl) == LIMIT(OrderByIdDesc(tbl), SEARCH_LIMIT)

\* comprehensive_search(query); raises names the statements whose execute raises
\* an sqlite3 error for a reason outside the query (the database locked, a table
\* missing, an expression too deep): "list", "fts", "like"
comprehensive_search(tbl, fts, query, raises) ==
    LET q == Strip(query)
        parsed == Fts5Parse(build_fts_query(q))
        fts_rows == SelectSeq(tbl, LAMBDA r :
                        \E e \in fts : e.rowid = r.id /\ FtsMatch(e, parsed))
        results == IF "fts" \in raises \/ parsed.error THEN <<>>
                   ELSE LIMIT(OrderByIdDesc(fts_rows), SEARCH_LIMIT)
        date_patterns == extract_date_patterns(q)
        text_parts == extract_text_parts(q)
        like_rows == SelectSeq(tbl, LAMBDA r : LikeWhere(r, text_parts, date_patterns))
    IN IF q = <<>>
       THEN IF "list" \in raises THEN [raised |-> TRUE, rows |-> <<>>, tier |-> 0]
            ELSE [raised |-> FALSE, rows |-> search_all(tbl), tier |-> 0]
       ELSE IF results # <<>> THEN [raised |-> FALSE, rows |-> results, tier |-> 1]
       ELSE IF text_parts = <<>> /\ date_patterns = <<>>
       THEN [raised |-> FALSE, rows |-> <<>>, tier |-> 2]
       ELSE IF "like" \in raises THEN [raised |-> TRUE, rows |-> <<>>, tier |-> 2]
       ELSE [raised |-> FALSE, rows |-> LIMIT(OrderByIdDesc(like_rows), SEARCH_LIMIT),
             tier |-> 2]

(***************************************************************************)
(* The read requests, each against a store the server can hold.            *)
(***************************************************************************)
\* records in the small stores of the read requests
MaxRecords == 3

\* what an analysis may have written into a record
AnalysedFields ==
    UNION { { [pdf_summary |-> r.summary, category |-> r.category] :
                r \in analysis_results(text) } : text \in PdfTexts }

\* a record as the scrape stored it, and records an analysis has updated
PlainRecord ==
    [date_text |-> DATE_A, title |-> TITLE_A, pdf_summary |-> NULL, category |-> NULL]

RecordVariants ==
    { PlainRecord } \cup
    { [date_text |-> DATE_B, title |-> TITLE_B, pdf_summary |-> a.pdf_summary,
       category |-> a.category] : a \in AnalysedFields }

\* the table after n INSERTs, the i-th of a url of its own and with fields v[i]
StoreOf(n, v) ==
    [i \in 1..n |->
        [id |-> i, date_text |-> v[i].date_text, title |-> v[i].title, url |-> i,
         crawled_at |-> i, pdf_summary |-> v[i].pdf_summary,
         category |-> v[i].category, translated_title |-> NULL]]

\* the stores of the read requests: every small one, and two of plain records
\* that hold one record more than a LIMIT of the code
QueryStores ==
    UNION { { StoreOf(n, v) : v \in [1..n -> RecordVariants] } : n \in 0..MaxRecords }
    \cup { StoreOf(n, [i \in 1..n |-> PlainRecord]) : n \in {SEARCH_LIMIT + 1, MAX_LIMIT + 1} }

\* ?category= of /api/data ('' when absent)
CategoryArgs == { <<>>, <<"E","x","a","m","i","n","a","t","i","o","n">>, <<"F","e","e"," ","N","o","t","i","c","e">> }

\* ?limit= of /api/data (NULL when absent)
LimitArgs == { NULL, <<"-","1">>, <<"0">>, <<"2">>, <<"6","0","0">>, <<"x">> }

\* ?q= of /api/search
Queries ==
    { <<>>, <<" ">>, <<"e","x","a","m">>, <<"x","a","m">>, <<"f","e","e">>, <<"m","a","y"," ","2","0","2","4">>, <<"1","2","-","0","1","-","2","0","2","5">>, <<"'">>, <<"z","z">>, <<"m","_","d">>,
      <<"m","a","y","s">> }

\* the statements of comprehensive_search whose execute raises
RaiseSets == { {}, {"fts"}, {"like"}, {"fts", "like"}, {"list"} }

\* the server holds a store and no request has been answered
InitQuery ==
    /\ announcements \in QueryStores
    /\ announcements_fts = { FtsEntry(announcements[i]) : i \in 1..Len(announcements) }
    /\ PDF_AVAILABLE = TRUE
    /\ th = [t \in Threads |-> IdleFrame]
    /\ tasks = <<>>
    /\ ncalls = 0
    /\ last = Observe("none", "none", 0, IdleFrame)
    /\ resp = NoResponse

\* GET /api/data: get_data() and jsonify(data)
api_data(category, limit_arg) ==
    LET r == get_data(announcements, category, limit_arg) IN
    /\ resp = NoResponse
    /\ resp' = [route |-> "data", category |-> category, limit |-> limit_arg,
                status |-> r.status, rows |-> r.rows]
    /\ UNCHANGED <<announcements, announcements_fts, PDF_AVAILABLE, th, tasks, ncalls, last>>

\* GET /api/search: search() returns jsonify(comprehensive_search(q)); an
\* exception that leaves comprehensive_search makes Flask answer 500
search(q, raises) ==
    LET r == comprehensive_search(announcements, announcements_fts, q, raises) IN
    /\ resp = NoResponse
    /\ resp' = [route |-> "search", q |-> q, raises |-> raises,
                status |-> IF r.raised THEN 500 ELSE 200, rows |-> r.rows,
                tier |-> r.tier]
    /\ UNCHANGED <<announcements, announcements_fts, PDF_AVAILABLE, th, tasks, ncalls, last>>

\* a read changes nothing it reads, so one request per store shows every answer
NextQuery ==
    \/ \E category \in CategoryArgs, limit_arg \in LimitArgs : api_data(category, limit_arg)
    \/ \E q \in Queries, raises \in RaiseSets : search(q, raises)

SpecQuery == InitQuery /\ [][NextQuery]_vars

(***************************************************************************)
(* Properties of the record store and of its index.                        *)
(***************************************************************************)
\* thread t takes the step that ends its save_announcement
SaveWrites(t) == th[t].pc = "save_write" /\ th'[t] # th[t]

\* the row of the table that holds url (the table holds it once)
RowOf(tbl, url) == tbl[CHOOSE i \in 1..Len(tbl) : tbl[i].url = url]

\* C1: whatever save_announcement calls (those of scrape_and_sync included),
\* background tasks and /api/analyze requests have run, and however their steps
\* interleaved, no two records of the store share a url; and when an INSERT of
\* a url lost the race against another INSERT of it, the store holds the url once
C1_OneRecordPerUrl ==
    /\ \A i, j \in 1..Len(announcements) :
          announcements[i].url = announcements[j].url => i = j
    /\ (last.op = "save" /\ last.status = "integrity_error")
          => Cardinality(RowsByUrl(announcements, last.url)) = 1

\* two save_announcement of one unseen url both found no row; the second INSERT
\* raised IntegrityError and one record is there
C1_Witness ==
    /\ last.op = "save"
    /\ last.status = "integrity_error"
    /\ Cardinality(RowsByUrl(announcements, last.url)) = 1

\* C2: a save_announcement without enrichment values, on a url that has a
\* record, with any date_text and title, leaves the table as it was (the
\* record's id, date_text, title, crawled_at, pdf_summary, category and
\* translated_title, and the number of records) and leaves the index as it was
C2_RediscoveryChangesNothing ==
    [][\A t \in Threads :
          (SaveWrites(t) /\ ~HasEnrichment(th[t])
                /\ RowsByUrl(announcements, th[t].url) # {})
            => (announcements' = announcements
                    /\ announcements_fts' = announcements_fts)]_vars

\* url 1 was stored with DATE_A and TITLE_A; a save_announcement of url 1, which
\* passes DATE_B and TITLE_B, returned without a write and the record is as stored
C2_Witness ==
    /\ last.op = "save"
    /\ last.status = "unchanged"
    /\ last.url = 1
    /\ RowsByUrl(announcements, 1) # {}
    /\ RowOf(announcements, 1).date_text = DATE_A
    /\ RowOf(announcements, 1).title = TITLE_A
    /\ Len(announcements) = Cardinality({ announcements[i].url : i \in 1..Len(announcements) })

\* C3: when save_announcement updates an existing record, an enrichment field
\* passed as NULL keeps the value the record holds and a field passed with a
\* non-empty value takes that value; so summary "S" then category "X", in either
\* order, end with both stored
C3_NullKeepsStored ==
    [][\A t \in Threads :
          (SaveWrites(t) /\ th[t].existing /\ HasEnrichment(th[t]))
            => LET f == th[t]
                   old == RowOf(announcements, f.url)
                   new == RowOf(announcements', f.url)
               IN /\ Len(announcements') = Len(announcements)
                  /\ f.pdf_summary = NULL => new.pdf_summary = old.pdf_summary
                  /\ f.category = NULL => new.category = old.category
                  /\ f.translated_title = NULL
                        => new.translated_title = old.translated_title
                  /\ Truthy(f.pdf_summary) => new.pdf_summary = f.pdf_summary
                  /\ Truthy(f.category) => new.category = f.category
                  /\ Truthy(f.translated_title)
                        => new.translated_title = f.translated_title]_vars

\* two updates were applied to one record, one with summary "S" only and one
\* with category "X" only, and the record holds both
C3_Witness ==
    /\ last.op = "save"
    /\ last.status = "updated"
    /\ last.rowcount = 1
    /\ ncalls = 2
    /\ RowOf(announcements, last.url).pdf_summary = <<"S">>
    /\ RowOf(announcements, last.url).category = <<"X">>
    /\ RowOf(announcements, last.url).translated_title = NULL

\* C4: when save_announcement updates an existing record and passes the empty
\* string for an enrichment field (with a non-empty value for another), the
\* value the record holds in that field is preserved
C4_EmptyKeepsStored ==
    [][\A t \in Threads :
          (SaveWrites(t) /\ th[t].existing /\ HasEnrichment(th[t])
                /\ th[t].pdf_summary = <<>>
                /\ Truthy(RowOf(announcements, th[t].url).pdf_summary))
            => RowOf(announcements', th[t].url).pdf_summary
                    = RowOf(announcements, th[t].url).pdf_summary]_vars

\* the analysis UPDATE of thread t, or of task k, is the step taken
AnalysisWrites(t) == th[t].pc = "analyze_update" /\ th'[t] # th[t]
TaskWrites(k) ==
    tasks[k].state = "Running" /\ tasks[k].step = "update" /\ tasks'[k] # tasks[k]

\* a write that finds no record for its url leaves table and index as they were
NoOpWithoutRecord(url) ==
    RowsByUrl(announcements, url) = {}
        => (announcements' = announcements /\ announcements_fts' = announcements_fts)

\* C5 as stated: enrichment of a url without a record creates no record and
\* changes no record and no index entry, through save_announcement with
\* enrichment values as through the analysis write of a task or of /api/analyze
C5_EnrichmentOfUnseenIsNoOp ==
    [][/\ \A t \in Threads :
            (SaveWrites(t) /\ HasEnrichment(th[t])) => NoOpWithoutRecord(th[t].url)
       /\ \A t \in Threads : AnalysisWrites(t) => NoOpWithoutRecord(th[t].url)
       /\ \A k \in 1..Len(tasks) : TaskWrites(k) => NoOpWithoutRecord(tasks[k].url)]_vars

\* C5, amended: the analysis write of a task or of /api/analyze on a url without
\* a record changes nothing; save_announcement with enrichment values on a url
\* without a record INSERTs a record that carries them, with its index entry,
\* and changes no other record or entry
C5_AnalysisOfUnseenIsNoOp ==
    [][/\ \A t \in Threads : AnalysisWrites(t) => NoOpWithoutRecord(th[t].url)
       /\ \A k \in 1..Len(tasks) : TaskWrites(k) => NoOpWithoutRecord(tasks[k].url)
       /\ \A t \in Threads :
            (SaveWrites(t) /\ HasEnrichment(th[t])
                  /\ RowsByUrl(announcements, th[t].url) = {})
              => LET new == announcements'[Len(announcements')]
                 IN /\ announcements' = Append(announcements, new)
                    /\ new.url = th[t].url
                    /\ new.pdf_summary = th[t].pdf_summary
                    /\ new.category = th[t].category
                    /\ new.translated_title = th[t].translated_title
                    /\ announcements_fts' = announcements_fts \cup {FtsEntry(new)}]_vars

\* an analysis computed a summary for a url without a record, its UPDATE matched
\* no row, and the store still has no record of the url
C5_Witness ==
    /\ last.op \in {"analyze", "task"}
    /\ last.status = "analyzed"
    /\ last.rowcount = 0
    /\ RowsByUrl(announcements, last.url) = {}

\* C6: the index holds the entry of every record, keyed by the record's id and
\* with the record's current title, date_text, pdf_summary, translated_title and
\* category, and nothing else: one entry per record, none without a record, and
\* none with the values a record had before an update
C6_IndexMirrorsRecords ==
    /\ announcements_fts = { FtsEntry(announcements[i]) : i \in 1..Len(announcements) }
    /\ Cardinality(announcements_fts) = Len(announcements)
    /\ \A e \in announcements_fts :
          /\ e.rowid \in 1..Len(announcements)
          /\ e = FtsEntry(announcements[e.rowid])

\* after two calls or more, the last write updated a record that now holds a
\* summary and a category, and the index holds one entry of that record
C6_Witness ==
    /\ last.status \in {"updated", "analyzed"}
    /\ last.rowcount = 1
    /\ ncalls >= 2
    /\ RowOf(announcements, last.url).pdf_summary # NULL
    /\ RowOf(announcements, last.url).category # NULL
    /\ Cardinality({ e \in announcements_fts : e.rowid = RowOf(announcements, last.url).id }) = 1

(***************************************************************************)
(* Properties of the read requests.                                        *)
(***************************************************************************)
\* the limit a /api/data request asked for
RequestedLimit == IF resp.limit = NULL THEN DEFAULT_LIMIT ELSE int(resp.limit).value

\* the records /api/data is asked for: all, or those of the category
Wanted ==
    { i \in 1..Len(announcements) :
        resp.category = <<>> \/ announcements[i].category = resp.category }

\* C7: /api/data, asked for a limit that is not negative, answers with records
\* of the store by descending id, at most `limit` of them, all of the category
\* asked for when one is, and they are the newest such records: a record left
\* out is older than each one returned, and is left out only because the limit
\* (or the maximum) is reached; so of records 1, 2, 3 a limit of 2 returns 3, 2
C7_ListNewestFirst ==
    (resp.route = "data" /\ resp.status = 200 /\ RequestedLimit >= 0) =>
        /\ Len(resp.rows) <= RequestedLimit
        /\ \A i, j \in 1..Len(resp.rows) : i < j => resp.rows[i].id > resp.rows[j].id
        /\ \A i \in 1..Len(resp.rows) :
              /\ resp.rows[i].id \in Wanted
              /\ resp.rows[i] = announcements[resp.rows[i].id]
        /\ \A w \in Wanted :
              (\A i \in 1..Len(resp.rows) : resp.rows[i].id # w) =>
                 /\ Len(resp.rows) = Min({RequestedLimit, MAX_LIMIT})
                 /\ \A i \in 1..Len(resp.rows) : w < resp.rows[i].id

\* three records, limit=2 and no category: the answer is record 3, then record 2
C7_Witness ==
    /\ resp.route = "data"
    /\ resp.status = 200
    /\ Len(announcements) = 3
    /\ resp.category = <<>>
    /\ resp.limit = <<"2">>
    /\ Len(resp.rows) = 2
    /\ resp.rows[1].id = 3
    /\ resp.rows[2].id = 2

\* C8: whatever integer limit is asked for, zero and negative ones included,
\* /api/data answers with at most 500 records
C8_AtMostMaximum ==
    (resp.route = "data" /\ resp.status = 200) => Len(resp.rows) <= MAX_LIMIT

C10_SearchNeverRaises ==
    resp.route = "search" =>
        /\ resp.status = 200
        /\ (Strip(resp.q) # <<>> /\ "fts" \in resp.raises) => resp.tier = 2
        /\ ({"fts", "like"} \subseteq resp.raises) => resp.rows = <<>>

\* needle is a substring of the field, letters compared without case
SubstringOf(needle, field) == field # NULL /\ Contains(Lower(field), Lower(needle))

\* what the fallback is to select for the stripped query q: every text part in
\* one of the four fields, every date pattern in date_text
FallbackWants(row, q) ==
    /\ \A k \in 1..Len(extract_text_parts(q)) :
          LET part == extract_text_parts(q)[k]
          IN \/ SubstringOf(part, row.title)
             \/ SubstringOf(part, row.date_text)
             \/ SubstringOf(part, row.pdf_summary)
             \/ SubstringOf(part, row.translated_title)
    /\ \A k \in 1..Len(extract_date_patterns(q)) :
          SubstringOf(extract_date_patterns(q)[k], row.date_text)

\* C11: /api/search with a query that is not empty, when the FTS tier gave no
\* row and the query has a text part or a date pattern, answers with the records
\* in which every text part is a substring of title, date_text, pdf_summary or
\* translated_title and every date pattern a substring of date_text, newest
\* first and at most 100; and when the FTS tier gave a row, the answer is the
\* FTS tier's: every record returned matches the FTS query
C11_FallbackIsSubstringMatch ==
    (resp.route = "search" /\ resp.status = 200 /\ Strip(resp.q) # <<>>) =>
        LET q == Strip(resp.q) IN
        /\ (/\ resp.tier = 2
            /\ extract_text_parts(q) \o extract_date_patterns(q) # <<>>)
              => resp.rows =
                    LIMIT(OrderByIdDesc(SelectSeq(announcements,
                                                  LAMBDA r : FallbackWants(r, q))),
                          SEARCH_LIMIT)
        /\ resp.tier = 1
              => \A i \in 1..Len(resp.rows) :
                    FtsMatch(FtsEntry(resp.rows[i]), Fts5Parse(build_fts_query(q)))

(***************************************************************************)
(* categorize_document on its own: texts of a few words.                   *)
(***************************************************************************)
\* words in a text given to categorize_document
MaxWords == 2

\* words with a keyword of Examination, Result, Fee Notice, Academic Calendar,
\* Internship/Placement, Event, Assignment/Project, and one with none
ClassifyWords ==
    { <<"e","x","a","m">>, <<"R","e","s","u","l","t">>, <<"f","e","e","s">>, <<"h","o","l","i","d","a","y">>, <<"j","o","b">>, <<"e","v","e","n","t">>, <<"P","R","O","J","E","C","T">>, <<"h","e","l","l","o">> }

\* the texts: None, and up to MaxWords words joined by spaces
ClassifyTexts ==
    { NULL } \cup
    UNION { { Join(ws, <<" ">>) : ws \in [1..n -> ClassifyWords] } : n \in 0..MaxWords }

InitClassify ==
    /\ announcements = EmptyDb.tbl
    /\ announcements_fts = EmptyDb.fts
    /\ PDF_AVAILABLE = TRUE
    /\ th = [t \in Threads |-> IdleFrame]
    /\ tasks = <<>>
    /\ ncalls = 0
    /\ last = Observe("none", "none", 0, IdleFrame)
    /\ resp = NoResponse

\* category = categorize_document(text)
classify(text) ==
    /\ resp = NoResponse
    /\ resp' = [route |-> "classify", status |-> 200, rows |-> <<>>, text |-> text,
                category |-> categorize_document(text), previous |-> NULL]
    /\ UNCHANGED <<announcements, announcements_fts, PDF_AVAILABLE, th, tasks, ncalls, last>>

\* categorize_document called once more on the text of the call before
classify_again ==
    /\ resp.route = "classify"
    /\ resp.previous = NULL
    /\ resp' = [resp EXCEPT !.category = categorize_document(resp.text),
                            !.previous = resp.category]
    /\ UNCHANGED <<announcements, announcements_fts, PDF_AVAILABLE, th, tasks, ncalls, last>>

NextClassify ==
    \/ \E text \in ClassifyTexts : classify(text)
    \/ classify_again

SpecClassify == InitClassify /\ [][NextClassify]_vars

\* category number c of the taxonomy has a keyword in the lowercased text
KeywordOccurs(c, text) ==
    /\ Truthy(text)
    /\ \E k \in 1..Len(categories[c].keywords) :
          Contains(Lower(text), categories[c].keywords[k])

\* C12: categorize_document returns "General Notice" for an empty text and for
\* one in which no keyword occurs, and otherwise the category that has a keyword
\* in the lowercased text while no category before it in the taxonomy has one;
\* called again on the same text it returns the same category
C12_FirstCategoryWins ==
    resp.route = "classify" =>
        /\ (\A c \in 1..Len(categories) : ~KeywordOccurs(c, resp.text))
              => resp.category = GENERAL_NOTICE
        /\ \A c \in 1..Len(categories) :
              (KeywordOccurs(c, resp.text)
                    /\ \A d \in 1..(c - 1) : ~KeywordOccurs(d, resp.text))
                 => resp.category = categories[c].category
        /\ resp.previous # NULL => resp.previous = resp.category

\* "fees Result" holds a keyword of Fee Notice and then one of Result; Result is
\* earlier in the taxonomy and is returned, by both calls
C12_Witness ==
    /\ resp.route = "classify"
    /\ resp.text = <<"f","e","e","s"," ","R","e","s","u","l","t">>
    /\ resp.category = <<"R","e","s","u","l","t">>
    /\ resp.previous = <<"R","e","s","u","l","t">>
    /\ \E c, d \in 1..Len(categories) :
          c # d /\ KeywordOccurs(c, resp.text) /\ KeywordOccurs(d, resp.text)

(***************************************************************************)
(* Properties of the pool's tasks and of the analyses.                     *)
(***************************************************************************)
\* C13: a submitted task starts Queued and its state changes only from Queued
\* to Running and from Running to Updated or Skipped, so Updated and Skipped are
\* final; tasks are never removed and keep their url; and no step of a task
\* other than the one that makes it Updated changes a record or an index entry,
\* so a task that ends Skipped has changed nothing
C13_TaskStateMachine ==
    [][/\ Len(tasks') >= Len(tasks)
       /\ \A k \in (Len(tasks) + 1)..Len(tasks') : tasks'[k].state = "Queued"
       /\ \A k \in 1..Len(tasks) :
            /\ tasks'[k].url = tasks[k].url
            /\ tasks'[k].state # tasks[k].state
                  => <<tasks[k].state, tasks'[k].state>> \in
                        { <<"Queued", "Running">>, <<"Running", "Updated">>,
                          <<"Running", "Skipped">> }
            /\ (tasks'[k] # tasks[k] /\ tasks'[k].state # "Updated")
                  => (announcements' = announcements
                        /\ announcements_fts' = announcements_fts)]_vars

\* a task ended Skipped, another Updated; the record of the skipped task's url
\* exists and holds no summary
C13_Witness ==
    \E j, k \in 1..Len(tasks) :
        /\ tasks[j].state = "Skipped"
        /\ tasks[k].state = "Updated"
        /\ tasks[j].url # tasks[k].url
        /\ RowsByUrl(announcements, tasks[j].url) # {}
        /\ RowOf(announcements, tasks[j].url).pdf_summary = NULL
        /\ RowOf(announcements, tasks[k].url).pdf_summary # NULL

(***************************************************************************)
(* One POST /api/sync served alone, over pages of few and of many tuples.  *)
(***************************************************************************)
\* tuples on a small page
MaxBatch == 3

\* a page of n announcements, each with a url of its own
PageOf(n) == [i \in 1..n |-> Tuple(i, DATE_A, TITLE_A)]

\* the small pages, and pages around the 20 urls scrape_and_sync hands on
SyncPages == { PageOf(n) : n \in (0..MaxBatch) \cup {20, 21} }

\* sync(): scrape_and_sync() starts while no other request and no task runs
scrape_and_sync_alone(batch) ==
    LET f == [IdleFrame EXCEPT !.op = "sync", !.batch = batch, !.i = 1,
                               !.analyze_pdfs = TRUE]
    IN
    /\ ncalls = 0
    /\ tasks = <<>>
    /\ \A t \in Threads : th[t].pc = "idle"
    /\ ncalls' = 1
    /\ th' = [th EXCEPT ![1] =
                IF batch = <<>> THEN [f EXCEPT !.pc = "sync_submit"]
                ELSE SaveFrame(f, "sync", PlainArgs(batch[1]))]
    /\ UNCHANGED <<announcements, announcements_fts, PDF_AVAILABLE, tasks, last, resp>>

NextSync ==
    \/ \E batch \in SyncPages : scrape_and_sync_alone(batch)
    \/ \E t \in Threads : save_announcement_select(t)
    \/ \E t \in Threads : save_announcement_write(t)
    \/ \E t \in Threads : scrape_and_sync_submit(t)

SpecSync == Init /\ [][NextSync]_vars

\* scrape_and_sync has returned, having counted n tuples
SyncReturned(n) == last.op = "sync" /\ last.status = "returned" /\ last.count = n

\* every url of the page has its record
AllSaved(n) == \A url \in 1..n : RowsByUrl(announcements, url) # {}

\* C14 as stated: when scrape_and_sync returns, every tuple of the page has a
\* record and a task was submitted for each of them, however many they are
C14_EnqueuesEveryTuple ==
    \A n \in 0..21 :
        SyncReturned(n) =>
            /\ AllSaved(n)
            /\ Len(tasks) = n
            /\ \A i \in 1..n : tasks[i].url = i

\* C14, amended: when scrape_and_sync(analyze_pdfs=True) returns, every tuple of
\* the page has a record; a task was submitted, in page order, for each of the
\* first 20 tuples and for no other when pdfplumber is available, and for none
\* when it is not
C14_EnqueuesFirstTwenty ==
    \A n \in 0..21 :
        SyncReturned(n) =>
            /\ AllSaved(n)
            /\ PDF_AVAILABLE => Len(tasks) = Min({n, 20})
            /\ ~PDF_AVAILABLE => tasks = <<>>
            /\ \A i \in 1..Len(tasks) : tasks[i] = NewTask(i)

\* a page of 21 tuples: 21 records, 20 tasks, the last for url 20
C14_Witness ==
    /\ SyncReturned(21)
    /\ PDF_AVAILABLE
    /\ Len(announcements) = 21
    /\ Len(tasks) = 20
    /\ tasks[20].url = 20

\* /api/analyze has answered cached = False for url, its UPDATE found the record
\* (found) or may have found none, and nothing has been written since
AnalyzedLast(url, found) ==
    /\ last.op = "analyze"
    /\ last.status = "analyzed"
    /\ last.url = url
    /\ found => last.rowcount = 1

\* the next /api/analyze of url answers cached = True with the summary and the
\* category of the answer before, starts no download and writes nothing
AnsweredFromCache(url) ==
    /\ last'.op = "analyze"
    /\ last'.status = "cached"
    /\ last'.url = url
    /\ last'.pdf_summary = last.pdf_summary
    /\ last'.category = last.category
    /\ th' = th
    /\ announcements' = announcements
    /\ announcements_fts' = announcements_fts

\* C15 as stated: when /api/analyze has analysed a url (cached = False) and is
\* called again on it with no write in between, it answers cached = True with
\* the same summary and category, without download and without write
C15_SecondAnalyzeIsCached ==
    [][\A t \in Threads, url \in URLS :
          (AnalyzedLast(url, FALSE) /\ analyze_pdf_call(t, url))
             => AnsweredFromCache(url)]_vars

\* C15, amended: the same for a url that has a record
C15_SecondAnalyzeOfRecordIsCached ==
    [][\A t \in Threads, url \in URLS :
          (AnalyzedLast(url, TRUE) /\ analyze_pdf_call(t, url))
             => AnsweredFromCache(url)]_vars

\* the second of two /api/analyze answered from the record, which holds the
\* summary the first one computed (it starts with "Type: ")
C15_Witness ==
    /\ last.op = "analyze"
    /\ last.status = "cached"
    /\ ncalls = 2
    /\ tasks = <<>>
    /\ IsPrefix(TYPE_LABEL, last.pdf_summary)
    /\ RowOf(announcements, last.url).pdf_summary = last.pdf_summary
    /\ RowOf(announcements, last.url).category = last.category

\* how /api/analyze ends when it has no result: {"error": "No URL provided"},
\* {"error": "Could not download PDF"}, {"error": "Could not extract text from PDF"}
AnalyzeErrors == {"error_no_url", "error_download", "error_extract"}

\* thread t ends an /api/analyze with an error payload in this step
AnalyzeFails(t) ==
    /\ last' # last
    /\ last'.op = "analyze"
    /\ last'.status \in AnalyzeErrors
    /\ \/ th[t].pc = "analyze_download" /\ th'[t].pc = "idle"
       \/ last'.status = "error_no_url" /\ Accepts(th, t) /\ th' = th

\* thread t takes a step of /api/analyze that comes before its UPDATE
BeforeUpdate(t) ==
    /\ th'[t] # th[t]
    /\ \/ th[t].pc = "analyze_download"
       \/ th'[t].pc = "analyze_download"

\* C16: an /api/analyze without url, or whose download or extraction gives
\* nothing, answers with an error payload for its url, and no step of it, from
\* the request to that answer, changes the records or the index
C16_FailedAnalyzeWritesNothing ==
    [][\A t \in Threads :
          /\ (th[t].pc = "analyze_download" /\ th'[t].pc = "idle")
                => /\ last'.op = "analyze"
                   /\ last'.status \in {"error_download", "error_extract"}
                   /\ last'.url = th[t].url
          /\ analyze_pdf_call(t, EMPTY_URL) => last'.status = "error_no_url"
          /\ (AnalyzeFails(t) \/ BeforeUpdate(t))
                => /\ announcements' = announcements
                   /\ announcements_fts' = announcements_fts]_vars

\* an /api/analyze of a recorded url has just answered that no text could be
\* extracted
C16_Witness ==
    /\ last.op = "analyze"
    /\ last.status = "error_extract"
    /\ RowsByUrl(announcements, last.url) # {}

(***************************************************************************)
(* The pool under load: one /api/sync hands on more urls than the executor *)
(* has workers, and the workers run the tasks.                             *)
(***************************************************************************)
\* a page with a single new announcement, and one with more than max_workers
PoolPages == { PageOf(n) : n \in {1, max_workers + 1} }

NextPool ==
    \/ \E batch \in PoolPages : scrape_and_sync_alone(batch)
    \/ \E t \in Threads : save_announcement_select(t)
    \/ \E t \in Threads : save_announcement_write(t)
    \/ \E t \in Threads : scrape_and_sync_submit(t)
    \/ \E k \in 1..Len(tasks) : task_start(k)
    \/ \E k \in 1..Len(tasks) : task_download(k)
    \/ \E k \in 1..Len(tasks) : task_update(k)

SpecPool == Init /\ [][NextPool]_vars

\* a step of a worker of the pool
PoolStep ==
    \E k \in 1..Len(tasks) : task_start(k) \/ task_download(k) \/ task_update(k)

\* the workers are threads of the operating system, which keeps running them:
\* while some worker can take a task, or some task can take its next step, one
\* of them does (download_pdf returns or gives up after PDF_DOWNLOAD_TIMEOUT)
PoolFairness == WF_vars(PoolStep)

SpecPoolFair == SpecPool /\ PoolFairness

Submitted(k) == k <= Len(tasks)

Finished(k) == Submitted(k) /\ tasks[k].state \in {"Updated", "Skipped"}

\* C17: under fair scheduling of the workers every submitted task ends Updated
\* or Skipped, also the task submitted when all workers are taken: again and
\* again all the tasks submitted so far have ended, and no step removes a task
\* from the pool, changes its url or takes a task out of Updated or Skipped
C17_EveryTaskFinishes ==
    /\ []<>(\A k \in 1..Len(tasks) : Finished(k))
    /\ [][/\ Len(tasks') >= Len(tasks)
          /\ \A k \in 1..Len(tasks) :
               /\ tasks'[k].url = tasks[k].url
               /\ Finished(k) => tasks'[k] = tasks[k]]_vars

\* more tasks than workers were submitted and all of them have ended, some
\* Updated
C17_Witness ==
    /\ Len(tasks) > max_workers
    /\ \A k \in 1..Len(tasks) : Finished(k)
    /\ \E k \in 1..Len(tasks) : tasks[k].state = "Updated"

\* the (summary, category) pairs one analysis can write
AnalysisPairs ==
    { <<o.pdf_summary, o.category>> :
        o \in { x \in PipelineTable[TRUE] : x.end = "analyzed" } }

\* another analysis of the url written last is about to write a different result
OverlappingAnalysis ==
    \/ \E t \in Threads :
          /\ th[t].pc = "analyze_update"
          /\ th[t].url = last.url
          /\ th[t].pdf_summary # last.pdf_summary
    \/ \E k \in 1..Len(tasks) :
          /\ tasks[k].state = "Running"
          /\ tasks[k].step = "update"
          /\ tasks[k].url = last.url
          /\ tasks[k].pdf_summary # last.pdf_summary

\* C18: whatever analyses of a url overlap, once an analysis has written its
\* result the record of the url holds the summary and the category of that
\* write, the one that happened last, and every record holds at any moment
\* either no analysis or the summary and category of one and the same analysis
C18_LastWriteWins ==
    /\ (last.status = "analyzed" /\ last.rowcount = 1) =>
          /\ RowOf(announcements, last.url).pdf_summary = last.pdf_summary
          /\ RowOf(announcements, last.url).category = last.category
    /\ \A i \in 1..Len(announcements) :
          <<announcements[i].pdf_summary, announcements[i].category>>
              \in AnalysisPairs \cup {<<NULL, NULL>>}

\* a background task has written its result into the record while an
\* /api/analyze of the same url, which computed another result, is about to write
C18_Witness ==
    /\ last.op = "task"
    /\ last.status = "analyzed"
    /\ last.rowcount = 1
    /\ OverlappingAnalysis
    /\ RowOf(announcements, last.url).pdf_summary = last.pdf_summary

Queued == { k \in 1..Len(tasks) : tasks[k].state = "Queued" }

\* C19: never more than max_workers (4) tasks are Running; while max_workers
\* tasks are Running no Queued task starts; and a scrape_and_sync that has
\* urls to hand on can always take its next step and return, whatever the
\* tasks are doing
C19_BoundedPool ==
    /\ [](Cardinality(Running) <= max_workers)
    /\ [](\A t \in Threads :
             th[t].pc = "sync_submit" => ENABLED scrape_and_sync_submit(t))
    /\ [][Cardinality(Running) = max_workers
             => \A k \in Queued : tasks'[k].state = "Queued"]_vars

\* scrape_and_sync has returned while max_workers of its tasks are Running and
\* another one waits Queued
C19_Witness ==
    /\ last.op = "sync"
    /\ last.status = "returned"
    /\ \A t \in Threads : th[t].pc = "idle"
    /\ Cardinality(Running) = max_workers
    /\ Queued # {}

RECURSIVE RebuildFrom(_, _, _)
\* the index FTS5 builds over content='announcements', content_rowid='id' when
\* it is emptied and filled again from the table: the entry of row i, then of
\* the rows after it
RebuildFrom(tbl, i, fts) ==
    IF i > Len(tbl) THEN fts
    ELSE RebuildFrom(tbl, i + 1, fts \cup {FtsEntry(tbl[i])})

rebuild(tbl) == RebuildFrom(tbl, 1, {})

\* C20: after any sequence of inserts and updates the index the triggers have
\* maintained step by step is the index a rebuild from the records gives
C20_RebuildEqualsIncremental == announcements_fts = rebuild(announcements)

\* two records were inserted and one of them was then updated with a summary: the
\* index went through the insert trigger and the delete-then-insert trigger
C20_Witness ==
    /\ Len(announcements) >= 2
    /\ last.status \in {"updated", "analyzed"}
    /\ last.rowcount = 1
    /\ Truthy(RowOf(announcements, last.url).pdf_summary)
    /\ FtsEntry(RowOf(announcements, last.url)) \in rebuild(announcements)

\* a query word in which a numeric date, a year or a word that starts with a
\* month name is recognised
DateLike(w) == extract_date_patterns(w) # <<>>

\* the text tokens of the query: its words of more than one character that are
\* not date-like
RemainingTokens(q) == SelectSeq(extract_text_parts(q), LAMBDA w : ~DateLike(w))

\* C21: the answer of the LIKE tier to a query with a text part or a date
\* pattern is the records whose date_text is like every date-like substring of
\* the query (numeric dates, years, month names) and in which every remaining
\* token of more than one character is like one of the four fields: a word
\* recognised as a month is not required as a text token as well
C21_DateWordsMatchDateOnly ==
    (/\ resp.route = "search"
     /\ resp.status = 200
     /\ resp.tier = 2
     /\ extract_text_parts(Strip(resp.q)) \o extract_date_patterns(Strip(resp.q)) # <<>>)
        => LET q == Strip(resp.q) IN
           resp.rows =
              LIMIT(OrderByIdDesc(SelectSeq(announcements, LAMBDA r :
                       LikeWhere(r, RemainingTokens(q), extract_date_patterns(q)))),
                    SEARCH_LIMIT)

(***************************************************************************)
(* extract_key_info and generate_pdf_summary on their own.                 *)
(***************************************************************************)
\* how often a word is repeated in a text given to extract_key_info
MaxRepeat == 11

\* a word that is a time, another time, two subjects, a paper code, a date
FactWords ==
    { <<"1","0","0","0">>, <<"1","1","0","0">>, <<"p","h","y","s","i","c","s">>, <<"e","n","g","l","i","s","h">>, <<"C","S","-","3","0","1">>, <<"1","2","-","0","1","-","2","0","2","5">> }

\* n times the word w
Repeat(w, n) == [i \in 1..n |-> w]

\* the texts: None, '', and a word repeated, followed or not by another word
FactTexts ==
    { NULL, <<>> } \cup
    { Join(Repeat(a, n) \o Repeat(b, m), <<" ">>) :
        a \in FactWords, b \in FactWords,
        n \in {0, 1, MaxRepeat - 1, MaxRepeat}, m \in {0, 1} }

InitFacts ==
    /\ announcements = EmptyDb.tbl
    /\ announcements_fts = EmptyDb.fts
    /\ PDF_AVAILABLE = TRUE
    /\ th = [t \in Threads |-> IdleFrame]
    /\ tasks = <<>>
    /\ ncalls = 0
    /\ last = Observe("none", "none", 0, IdleFrame)
    /\ resp = NoResponse

\* key_info = extract_key_info(text), its lists in one of the orders
\* list(set(...)) may give
key_info_call(text) ==
    /\ resp = NoResponse
    /\ \E ki \in key_info_lists(text) :
          resp' = [route |-> "key_info", status |-> 200, rows |-> <<>>, text |-> text,
                   key_info |-> ki]
    /\ UNCHANGED <<announcements, announcements_fts, PDF_AVAILABLE, th, tasks, ncalls, last>>

\* texts for generate_pdf_summary: more distinct paper codes, dates, times and
\* subjects than the summary lists, and only blanks
SummaryTexts ==
    { <<"C","S","-","3","0","1"," ","E","E","-","3","0","1"," ","M","E","-","3","0","1"," ","C","E","-","3","0","1"," ","I","T","-","3","0","1"," ","E","C","-","3","0","1">>,
      <<"0","1","-","0","1","-","2","0","2","5"," ","0","2","-","0","1","-","2","0","2","5"," ","0","3","-","0","1","-","2","0","2","5"," ","0","4","-","0","1","-","2","0","2","5"," ","0","5","-","0","1","-","2","0","2","5"," ","0","6","-","0","1","-","2","0","2","5">>,
      <<"1","0",":","0","0"," ","1","1",":","0","0"," ","1","2",":","0","0"," ","1","3",":","0","0">>,
      <<"p","h","y","s","i","c","s"," ","e","n","g","l","i","s","h"," ","c","h","e","m","i","s","t","r","y"," ","d","a","t","a","b","a","s","e"," ","n","e","t","w","o","r","k"," ","s","o","f","t","w","a","r","e">>,
      <<" ">> }

\* texts of more than 50 words, of more than 200 characters in their first 50
\* words or not
LongTexts ==
    { Join(Repeat(w, 51), <<" ">>) : w \in { <<"h","e","l","l","o">>, <<"a","b">> } }

\* summary = generate_pdf_summary(text, key_info, category) with the category and
\* the key_info the analyses pass: those computed from the same text
summary_call ==
    /\ resp.route = "key_info"
    /\ resp' = [route |-> "summary", status |-> 200, rows |-> <<>>, text |-> resp.text,
                key_info |-> resp.key_info,
                category |-> categorize_document(resp.text),
                summary |-> generate_pdf_summary(resp.text, resp.key_info,
                                                 categorize_document(resp.text))]
    /\ UNCHANGED <<announcements, announcements_fts, PDF_AVAILABLE, th, tasks, ncalls, last>>

NextFacts ==
    \/ \E text \in FactTexts \cup SummaryTexts \cup LongTexts : key_info_call(text)
    \/ summary_call

SpecFacts == InitFacts /\ [][NextFacts]_vars

\* the distinct strings among the matches
Distinct(matches) == Cardinality(Range(matches))

\* list has no entry twice, at most cap entries, and as many entries as there
\* are distinct matches, or cap when there are more
DedupThenCap(list, matches, cap) ==
    /\ \A i, j \in 1..Len(list) : list[i] = list[j] => i = j
    /\ Len(list) <= cap
    /\ Len(list) = Min({cap, Distinct(matches)})
    /\ Range(list) \subseteq Range(matches)

\* C22: for every text, each list extract_key_info returns has no duplicates, at
\* most its cap of entries (10 paper codes, 20 dates, 10 times, 10 subjects) and
\* min(cap, number of distinct matches) entries
C22_DedupBeforeCap ==
    (resp.route \in {"key_info", "summary"} /\ Truthy(resp.text)) =>
        /\ DedupThenCap(resp.key_info.paper_codes, paper_code_matches(resp.text), 10)
        /\ DedupThenCap(resp.key_info.dates, date_matches(resp.text), 20)
        /\ DedupThenCap(resp.key_info.times, time_matches(resp.text), 10)
        /\ DedupThenCap(resp.key_info.subjects, subject_matches(resp.text), 10)

\* the segment of a fact list: none when the list is empty, else the label and
\* the first entries of the list, at most cap of them, joined by ", "
FactSegment(label, list, cap) ==
    IF list = <<>> THEN <<>>
    ELSE << label \o Join(SubSeq(list, 1, Min({cap, Len(list)})), COMMA_SEP) >>

\* the excerpt of the text: its first 50 words joined by blanks, cut after 200
\* characters and then marked "..."
Excerpt(text) ==
    LET words == Split(text)
        brief == Join(SubSeq(words, 1, Min({50, Len(words)})), <<" ">>)
    IN IF Len(brief) <= 200 THEN brief ELSE SubSeq(brief, 1, 200) \o ELLIPSIS

\* C23: generate_pdf_summary returns "Unable to extract content from PDF." for
\* an empty text (None or ''), and for any other text the segments "Type: " and
\* the category, then for each fact list that is not empty its label and its
\* first entries (at most 5 paper codes, 5 dates, 3 times, 5 subjects), then
\* "Content: " and an excerpt of at most 200 characters and the mark "...", all
\* joined by " | "
C23_SummaryShape ==
    resp.route = "summary" =>
        /\ ~Truthy(resp.text) => resp.summary = UNABLE_TO_EXTRACT
        /\ Truthy(resp.text) =>
              /\ resp.summary =
                    Join(<< TYPE_LABEL \o resp.category >>
                         \o FactSegment(PAPER_CODES_LABEL, resp.key_info.paper_codes, 5)
                         \o FactSegment(DATES_LABEL, resp.key_info.dates, 5)
                         \o FactSegment(TIMES_LABEL, resp.key_info.times, 3)
                         \o FactSegment(SUBJECTS_LABEL, resp.key_info.subjects, 5)
                         \o << CONTENT_LABEL \o Excerpt(resp.text) >>,
                         BAR_SEP)
              /\ Len(Excerpt(resp.text)) <= 200 + Len(ELLIPSIS)
              /\ resp.summary # UNABLE_TO_EXTRACT

\* the summary of a text of 51 words whose first 50 take more than 200
\* characters: "Type: General Notice | Content: " and 200 characters and "..."
C23_Witness ==
    /\ resp.route = "summary"
    /\ Len(Split(resp.text)) > 50
    /\ resp.key_info.subjects = <<>>
    /\ Len(resp.summary) =
          Len(TYPE_LABEL \o GENERAL_NOTICE \o BAR_SEP \o CONTENT_LABEL) + 200 + Len(ELLIPSIS)
    /\ SubSeq(resp.summary, Len(resp.summary) - 2, Len(resp.summary)) = ELLIPSIS

\* C24: whatever /api/sync requests, pool tasks and /api/analyze requests have
\* run and however they interleaved, every record has no summary and no
\* category, or has both; its summary then starts with "Type: " and its
\* category and is not "Unable to extract content from PDF."; and no record has
\* a translated title
C24_EnrichedRecordsWellFormed ==
    \A i \in 1..Len(announcements) :
        LET row == announcements[i] IN
        /\ (row.pdf_summary = NULL) <=> (row.category = NULL)
        /\ row.pdf_summary # NULL =>
              /\ Truthy(row.category)
              /\ IsPrefix(TYPE_LABEL \o row.category, row.pdf_summary)
              /\ row.pdf_summary # UNABLE_TO_EXTRACT
        /\ row.translated_title = NULL

\* after a sync and an analysis, one record holds a summary and its category
\* and another record holds neither
C24_Witness ==
    /\ ncalls = 2
    /\ \E i, j \in 1..Len(announcements) :
          /\ announcements[i].pdf_summary = NULL
          /\ announcements[i].category = NULL
          /\ Truthy(announcements[j].pdf_summary)
          /\ IsPrefix(TYPE_LABEL \o announcements[j].category, announcements[j].pdf_summary)

=============================================================================
